---------------------------- MODULE Spec2Model ----------------------------
(***************************************************************************)
(* Modal (eigenfrequency) analysis problem of TACS:                        *)
(* tacs/problems/modal.py, class ModalProblem.                             *)
(*                                                                         *)
(* The Python class is modelled operation by operation.  The objects it    *)
(* drives (the assembler, the preconditioner Pc, the FrequencyAnalysis     *)
(* eigensolver and the option methods of the base class TACSProblem) are   *)
(* not part of the Python sources at hand; they are modelled from the      *)
(* design description, on diagonal operators, and are marked as such.      *)
(*                                                                         *)
(* Reals are fixed-point integers with Scale units per 1.0.                *)
(***************************************************************************)
EXTENDS Integers, Sequences, FiniteSets, TLC

VARIABLES
    fGuess,       \* constructor argument fGuess
    userOptions,  \* constructor argument options
    numEigs,      \* self.numEigs
    options,      \* self.options
    callCounter,  \* self.callCounter
    solveCalls,   \* number of solve() invocations made so far
    x,            \* self.x      (design variables of the problem)
    Xpts,         \* self.Xpts   (node coordinates of the problem)
    assembler,    \* the shared assembler: bound dv, nodes, state variables
    M,            \* self.M
    K,            \* self.K
    pc,           \* self.pc
    gmres,        \* self.gmres: the Krylov solver and its configuration
    freqSolver,   \* self.freqSolver: the configuration of the eigensolver
    run,          \* the eigensolver run of the solve() in progress, if any
    eigs,         \* eigenpairs held by self.freqSolver
    lastOp,       \* the operation that just ran; "idle" once the caller has its results
    args,         \* the arguments it was called with
    status,       \* "ok" or the name of the exception it raised
    trace,        \* collaborator calls made by the last solve()
    ret,          \* value returned by the last getVariables()
    states,       \* the caller's storage after the last getVariables()
    funcs,        \* the caller's funcs / funcsSens container
    warned,       \* warnings and other lines printed by the last operation
    written,      \* writer calls made by the last writeSolution()
    other         \* a second problem, once one is constructed on the assembler

vars == <<fGuess, userOptions, numEigs, options, callCounter, solveCalls, x,
          Xpts, assembler, M, K, pc, gmres, freqSolver, run, eigs, lastOp, args,
          status, trace, ret, states, funcs, warned, written, other>>

\* what the constructor fixes: its arguments and the solver objects it creates
created == <<fGuess, userOptions, numEigs, gmres, freqSolver>>

---------------------------------------------------------------------------
(* Bounds of the model *)

\* solve() is called at most MaxCalls times
MaxCalls == 2

\* numFreqs given to the constructor ranges over 0 .. MaxEigs
MaxEigs == 3

\* number of solve() calls made in a long run (an optimisation loop)
ManySolves == 1001

\* options changed after construction where the solver configuration is studied
MaxOptionsSet == 2

---------------------------------------------------------------------------
(* Arithmetic helpers *)

\* fixed-point unit: Scale stands for 1.0
Scale == 10

Abs(n) == IF n < 0 THEN -n ELSE n

Min(a, b) == IF a < b THEN a ELSE b

\* floor of the square root of a natural number
RECURSIVE ISqrt(_)
ISqrt(n) ==
    IF n < 2 THEN n
    ELSE LET small == 2 * ISqrt(n \div 4)
             large == small + 1
         IN  IF large * large > n THEN small ELSE large

\* np.sqrt on a fixed-point value; a negative argument gives nan (NaN)
NaN == -1

np_sqrt(v) == IF v < 0 THEN NaN ELSE ISqrt(v * Scale)

---------------------------------------------------------------------------
(* The assembler (operator builder), on diagonal operators *)

\* values a design-variable vector can take
DesignVals == {1, 2}

\* values the node-coordinate vector can take
NodeVals == {1, 2}

\* stiffness per degree of freedom as a function of the design variables
StiffnessOf(dv) ==
    CASE dv = 1 -> <<90, 95, 105, 300>>
      [] OTHER  -> <<100, 200, 300, 400>>

\* number of degrees of freedom of the mesh
NDof == Len(StiffnessOf(1))

Dofs == 1..NDof

ZeroVec == [i \in Dofs |-> 0]

\* assembler.createSchurMat(): a zero matrix
createSchurMat == [kind |-> "zero", diag |-> ZeroVec, dv |-> 0, nodes |-> 0]

\* assembler.createVec(): a zero vector
createVec(asm) == [i \in DOMAIN asm.vars |-> 0]

\* mass operator assembled from the variables bound in the assembler
assembleMass(asm) ==
    [kind |-> "mass", diag |-> [i \in Dofs |-> asm.nodes],
     dv |-> asm.dv, nodes |-> asm.nodes]

\* stiffness operator assembled from the variables bound in the assembler
assembleStiffness(asm) ==
    [kind |-> "stiffness",
     diag |-> [i \in Dofs |-> StiffnessOf(asm.dv)[i] * asm.nodes * asm.nodes],
     dv |-> asm.dv, nodes |-> asm.nodes]

\* assembler.assembleJacobian(alpha, beta, gamma, None, mat)
assembleJacobian(alpha, beta, gamma, asm) ==
    [kind |-> "jacobian",
     diag |-> [i \in Dofs |-> alpha * assembleStiffness(asm).diag[i]
                              + gamma * assembleMass(asm).diag[i]],
     dv |-> asm.dv, nodes |-> asm.nodes]

\* the shifted operator K - sigma M
ShiftedOperator(kmat, mmat, sig) ==
    [kind |-> "shifted",
     diag |-> [i \in Dofs |-> kmat.diag[i] - sig * mmat.diag[i]],
     dv |-> kmat.dv, nodes |-> kmat.nodes]

IsSingular(mat) == \E i \in Dofs : mat.diag[i] = 0

\* pc.factor(): the factorization remembers the operator it was made from
Pc_factor(mat) ==
    IF IsSingular(mat)
    THEN [factored |-> FALSE, of |-> mat.kind, diag |-> mat.diag,
          dv |-> mat.dv, nodes |-> mat.nodes]
    ELSE [factored |-> TRUE, of |-> mat.kind, diag |-> mat.diag,
          dv |-> mat.dv, nodes |-> mat.nodes]

---------------------------------------------------------------------------
(* Options: self.options and the option methods of the base class *)

\* Problem name given to the constructor
name == "modal"

\* str.lower() on the option names that occur
lower(key) ==
    CASE key = "outputDir"       -> "outputdir"
      [] key = "L2Convergence"   -> "l2convergence"
      [] key = "L2ConvergenceRel" -> "l2convergencerel"
      [] key = "subSpaceSize"    -> "subspacesize"
      [] key = "nRestarts"       -> "nrestarts"
      [] key = "outputFrequency" -> "outputfrequency"
      [] key = "writeSolution"   -> "writesolution"
      [] key = "WRITESOLUTION"   -> "writesolution"
      [] key = "OUTPUTDIR"       -> "outputdir"
      [] key = "NumberSolutions" -> "numbersolutions"
      [] key = "NUMBERSOLUTIONS" -> "numbersolutions"
      [] key = "numberSolutions" -> "numbersolutions"
      [] key = "printTiming"     -> "printtiming"
      [] key = "printLevel"      -> "printlevel"
      [] OTHER                   -> key

\* a Python value with its type
PyStr(s)   == [t |-> "str", v |-> s]
PyFloat(s) == [t |-> "float", v |-> s]
PyInt(n)   == [t |-> "int", v |-> n]
PyBool(b)  == [t |-> "bool", v |-> b]

\* defOpts: option name -> [type, default value]
defOpts ==
    [outputDir        |-> [type |-> "str",   value |-> PyStr("./")],
     L2Convergence    |-> [type |-> "float", value |-> PyFloat("1e-12")],
     L2ConvergenceRel |-> [type |-> "float", value |-> PyFloat("1e-12")],
     subSpaceSize     |-> [type |-> "int",   value |-> PyInt(10)],
     nRestarts        |-> [type |-> "int",   value |-> PyInt(15)],
     outputFrequency  |-> [type |-> "int",   value |-> PyInt(0)],
     writeSolution    |-> [type |-> "bool",  value |-> PyBool(TRUE)],
     numberSolutions  |-> [type |-> "bool",  value |-> PyBool(TRUE)],
     printTiming      |-> [type |-> "bool",  value |-> PyBool(FALSE)],
     printLevel       |-> [type |-> "int",   value |-> PyInt(0)]]

\* the lower-cased keys of the default table
DefKeys == {lower(k) : k \in DOMAIN defOpts}

\* the table stored under self.options['defaults']
DefaultTable ==
    [lk \in DefKeys |-> defOpts[CHOOSE k \in DOMAIN defOpts : lower(k) = lk]]

\* variant: the options are stored under their names as written
InitialOptions_caseKept ==
    [k \in DOMAIN defOpts \cup {"defaults"} |->
        IF k = "defaults" THEN DefaultTable ELSE defOpts[k]]

\* self.options after the loop over def_keys
InitialOptions ==
    [k \in DefKeys \cup {"defaults"} |->
        IF k = "defaults" THEN DefaultTable ELSE DefaultTable[k]]

\* two Python values are equal: same type, same value
PyEq(a, b) == a.t = b.t /\ a.v = b.v

\* option k holds the same in the registries p and q
SameOption(p, q, k) == p[k].type = q[k].type /\ PyEq(p[k].value, q[k].value)

\* getOption(name): the current value; unknown names raise
getOptionStatus(opts, key) ==
    IF lower(key) \in DOMAIN opts["defaults"] THEN "ok" ELSE "UnknownOption"

getOption(opts, key) == opts[lower(key)].value.v

\* setOption(name, value): the outcome and the options afterwards
setOptionStatus(opts, key, val) ==
    IF lower(key) \notin DOMAIN opts["defaults"] THEN "UnknownOption"
    ELSE IF opts["defaults"][lower(key)].type # val.t THEN "TypeMismatch"
    ELSE "ok"

setOption(opts, key, val) ==
    IF setOptionStatus(opts, key, val) = "ok"
    THEN [opts EXCEPT ![lower(key)] = [type |-> val.t, value |-> val]]
    ELSE opts

\* option dictionaries handed to the constructor
ConstructorOptions ==
    { <<>> }

\* option dictionaries handed to the constructor where the output is studied
OutputConstructorOptions ==
    { <<>>,
      << <<"outputDir", PyStr("out")>> >>,
      << <<"NumberSolutions", PyBool(FALSE)>>, <<"outputDir", PyInt(1)>> >>,
      << <<"verbose", PyBool(TRUE)>> >> }

\* variant: the overrides are stored in self.options directly
RECURSIVE applyOptions_unchecked(_, _)
applyOptions_unchecked(opts, overrides) ==
    IF overrides = <<>> THEN [status |-> "ok", options |-> opts, at |-> <<>>]
    ELSE applyOptions_unchecked(
             [k \in DOMAIN opts \cup {lower(Head(overrides)[1])} |->
                 IF k = lower(Head(overrides)[1])
                 THEN [type |-> Head(overrides)[2].t, value |-> Head(overrides)[2]]
                 ELSE opts[k]],
             Tail(overrides))

\* for key in options: self.setOption(key, options[key]); the first
\* setOption that raises ends the loop, and the constructor
RECURSIVE applyOptions(_, _)
applyOptions(opts, overrides) ==
    IF overrides = <<>> THEN [status |-> "ok", options |-> opts, at |-> <<>>]
    ELSE IF setOptionStatus(opts, Head(overrides)[1], Head(overrides)[2]) # "ok"
    THEN [status  |-> setOptionStatus(opts, Head(overrides)[1], Head(overrides)[2]),
          options |-> setOption(opts, Head(overrides)[1], Head(overrides)[2]),
          at      |-> Head(overrides)]
    ELSE applyOptions(setOption(opts, Head(overrides)[1], Head(overrides)[2]),
                      Tail(overrides))

\* (key, value) pairs given to setOption after construction
SetOptionInputs ==
    { <<"writeSolution", PyBool(FALSE)>>, <<"WRITESOLUTION", PyBool(TRUE)>>,
      <<"printLevel", PyStr("high")>>, <<"verbose", PyInt(1)>> }

\* (key, value) pairs given to setOption where the output is studied
OutputOptionInputs ==
    { <<"numberSolutions", PyBool(FALSE)>>, <<"NumberSolutions", PyBool(TRUE)>>,
      <<"OUTPUTDIR", PyStr("out")>>, <<"outputDir", PyStr("./")>>,
      <<"NUMBERSOLUTIONS", PyInt(0)>>, <<"verbose", PyInt(1)>> }

\* keys given to getOption
GetOptionInputs == {"outputDir", "OUTPUTDIR", "numberSolutions", "verbose", "defaults"}

---------------------------------------------------------------------------
(* The eigensolver: tacs.TACS.FrequencyAnalysis, on diagonal operators *)

\* variant: the frequency guess is taken as the shift without squaring it
sigma_notSquared == fGuess

\* self.sigma
sigma == fGuess * fGuess

\* error estimate of a pair that met / did not meet the tolerance
ErrConverged == 0
ErrElevated == 1

\* generalized eigenvalue of degree of freedom i
EigenvalueOf(kmat, mmat, i) == kmat.diag[i] \div mmat.diag[i]

\* M-normalised eigenvector of degree of freedom i
EigenvectorOf(mmat, i) ==
    [j \in Dofs |-> IF j = i THEN ISqrt((Scale * Scale) \div mmat.diag[i]) ELSE 0]

\* the orders of the degrees of freedom that rank |eigenvalue - shift| ascending
DofOrders == { p \in [Dofs -> Dofs] : \A i, j \in Dofs : i # j => p[i] # p[j] }

Rankings(kmat, mmat, sig) ==
    LET d == [i \in Dofs |-> Abs(EigenvalueOf(kmat, mmat, i) - sig)]
    IN  { p \in DofOrders : \A i \in 1..(NDof - 1) : d[p[i]] <= d[p[i + 1]] }

\* a slot of the eigensolver: conv says that the slot holds a pair (one that
\* met the tolerance, or the best one available when the budget ran out, met
\* = FALSE, which carries the elevated error estimate)
EigenPair(kmat, mmat, i, converged, met, gen) ==
    [eig  |-> EigenvalueOf(kmat, mmat, i),
     vec  |-> EigenvectorOf(mmat, i),
     err  |-> IF converged /\ met THEN ErrConverged ELSE ErrElevated,
     conv |-> converged,
     gen  |-> gen]

Event(ev, arg) == [ev |-> ev, arg |-> arg]

\* freqSolver.solve(): the possible outcomes for the variables bound in asm.
\* Assembles M and K, factors the shifted operator and iterates; the pairs
\* of the previous run are dropped on entry.  Of the slots kept, the first
\* nconv met the tolerance; the next one holds either a pair that did not
\* meet it within the budget (soft) or, like all later ones, no pair.
FrequencyAnalysis_solve(asm, mmat, kmat, pcOld, sig, neigs, gen) ==
    LET newM == assembleMass(asm)
        newK == assembleStiffness(asm)
        shifted == ShiftedOperator(newK, newM, sig)
        newPc == Pc_factor(shifted)
        nkeep == Min(neigs, NDof)
        asmTrace == << Event("assembleM", asm.dv), Event("assembleK", asm.dv) >>
    IN  { [status |-> "AssemblyError", M |-> mmat, K |-> kmat, pc |-> pcOld,
           eigs |-> <<>>, trace |-> <<>>] }
        \cup
        ( IF ~newPc.factored
          THEN { [status |-> "SingularOperator", M |-> newM, K |-> newK,
                  pc |-> newPc, eigs |-> <<>>,
                  trace |-> asmTrace \o << Event("factor", asm.dv) >>] }
          ELSE { [status |-> "ok", M |-> newM, K |-> newK, pc |-> newPc,
                  eigs |-> [s \in 1..nkeep |->
                              EigenPair(newK, newM, p[s], s <= nconv + soft,
                                        s <= nconv, gen)],
                  trace |-> asmTrace \o << Event("factor", asm.dv),
                                           Event("eigensolve", nkeep) >>]
                 : p \in Rankings(newK, newM, sig), nconv \in 0..nkeep,
                   soft \in {0, 1} } )

\* freqSolver.extractEigenvalue(index)
extractEigenvalueStatus(pairs, neigs, index) ==
    IF index >= neigs \/ index < 0 \/ index >= Len(pairs) THEN "IndexOutOfRange"
    ELSE IF ~pairs[index + 1].conv THEN "IndexOutOfRange"
    ELSE "ok"

extractEigenvalue(pairs, index) ==
    [eig |-> pairs[index + 1].eig, err |-> pairs[index + 1].err]

\* freqSolver.extractEigenvector(index, vec): vec is overwritten
extractEigenvector(pairs, index, vec) ==
    [i \in DOMAIN vec |-> pairs[index + 1].vec[i]]

---------------------------------------------------------------------------
(* Values passed to and returned by the operations *)

\* what an operation that returns nothing, or raises, hands back
NoRet == [freq |-> NaN, vec |-> <<>>, num |-> -1, val |-> PyInt(0)]

\* kinds of storage a caller can pass as `states`
StorageKinds == {"None", "Vec", "ndarray", "ndarray_int", "list"}

\* a storage of the given kind as the caller holds it before the call
FreshStorage(kind) ==
    [kind |-> kind, data |-> IF kind = "None" THEN <<>> ELSE [i \in Dofs |-> -1]]

\* funcs / funcsSens dictionaries a caller can pass (their keys)
FuncsInputs == { {"mass"} }

\* mode indices asked of getVariables
IndexInputs == 0..MaxEigs

\* (index, kind of storage) arguments of getVariables
GetVariablesInputs == IndexInputs \X StorageKinds

\* numFreqs arguments of the constructor
NumFreqsInputs == 0..MaxEigs

\* `indices` arguments of writeSolution; none stands for None
IndicesInputs ==
    { [none |-> TRUE, idx |-> <<>>], [none |-> FALSE, idx |-> <<0>>],
      [none |-> FALSE, idx |-> <<1, 0>>], [none |-> FALSE, idx |-> <<MaxEigs>>] }

\* the arguments of a call; a field an operation does not take has its default
NoArgs ==
    [index |-> -1, storage |-> FreshStorage("None"), funcs |-> {},
     indices |-> [none |-> TRUE, idx |-> <<>>], key |-> "", val |-> PyInt(0),
     dv |-> 0, nodes |-> 0]

---------------------------------------------------------------------------
(* ModalProblem *)

\* variant: the node coordinates are not pushed into the assembler
updateAssemblerVars_noNodes(asm, dv, nodes) ==
    [asm   |-> [asm EXCEPT !.dv = dv],
     trace |-> << Event("setDesignVars", dv) >>]

\* variant: the design variables are not pushed into the assembler
updateAssemblerVars_noDesignVars(asm, dv, nodes) ==
    [asm   |-> [asm EXCEPT !.nodes = nodes],
     trace |-> << Event("setNodes", nodes) >>]

\* _updateAssemblerVars(): setDesignVars(self.x), setNodes(self.Xpts)
updateAssemblerVars(asm, dv, nodes) ==
    [asm   |-> [asm EXCEPT !.dv = dv, !.nodes = nodes],
     trace |-> << Event("setDesignVars", dv), Event("setNodes", nodes) >>]

\* variant: the counter is advanced only once the eigensolver has returned
solve_countOnSuccess(cc, asm, dv, nodes, mmat, kmat, pcOld, sig, neigs) ==
    LET bound == updateAssemblerVars(asm, dv, nodes)
    IN  { [callCounter |-> IF r.status = "ok" THEN cc + 1 ELSE cc,
           assembler |-> bound.asm,
           M |-> r.M, K |-> r.K, pc |-> r.pc, eigs |-> r.eigs,
           status |-> r.status, trace |-> bound.trace \o r.trace]
          : r \in FrequencyAnalysis_solve(bound.asm, mmat, kmat, pcOld, sig,
                                          neigs, cc + 1) }

\* variant: an error of the eigensolver call is caught and solve() returns
solve_swallowErrors(cc, asm, dv, nodes, mmat, kmat, pcOld, sig, neigs) ==
    LET counter == cc + 1
        bound == updateAssemblerVars(asm, dv, nodes)
    IN  { [callCounter |-> counter, assembler |-> bound.asm,
           M |-> r.M, K |-> r.K, pc |-> r.pc, eigs |-> r.eigs,
           status |-> "ok", trace |-> bound.trace \o r.trace]
          : r \in FrequencyAnalysis_solve(bound.asm, mmat, kmat, pcOld, sig,
                                          neigs, counter) }

\* solve(): the possible outcomes of one call
solve(cc, asm, dv, nodes, mmat, kmat, pcOld, sig, neigs) ==
    LET counter == cc + 1
        bound == updateAssemblerVars(asm, dv, nodes)
    IN  { [callCounter |-> counter, assembler |-> bound.asm,
           M |-> r.M, K |-> r.K, pc |-> r.pc, eigs |-> r.eigs,
           status |-> r.status, trace |-> bound.trace \o r.trace]
          : r \in FrequencyAnalysis_solve(bound.asm, mmat, kmat, pcOld, sig,
                                          neigs, counter) }

\* numpy assignment into an integer array truncates toward zero
IntCast(v) == (v \div Scale) * Scale

\* what a Vec / ndarray storage holds after the values vec were assigned to it
Filled(sto, vec) ==
    CASE sto.kind = "Vec" -> [sto EXCEPT !.data = vec]
      [] sto.kind = "ndarray" -> [sto EXCEPT !.data = vec]
      [] sto.kind = "ndarray_int" ->
           [sto EXCEPT !.data = [i \in DOMAIN vec |-> IntCast(vec[i])]]
      [] OTHER -> sto

\* variant: the eigenvalue is returned where its square root is due
getVariables_noSqrt(pairs, neigs, asm, index, sto) ==
    IF extractEigenvalueStatus(pairs, neigs, index) # "ok"
    THEN [status |-> extractEigenvalueStatus(pairs, neigs, index),
          ret |-> NoRet, states |-> sto]
    ELSE LET eigVector == extractEigenvector(pairs, index, createVec(asm))
         IN  [status |-> "ok",
              ret    |-> [freq |-> extractEigenvalue(pairs, index).eig * Scale,
                          vec |-> eigVector, num |-> -1, val |-> PyInt(0)],
              states |-> Filled(sto, eigVector)]

\* variant: the storage is filled with the eigenvector, but the array
\* returned is that of the assembler's current state variables
getVariables_assemblerState(pairs, neigs, asm, index, sto) ==
    IF extractEigenvalueStatus(pairs, neigs, index) # "ok"
    THEN [status |-> extractEigenvalueStatus(pairs, neigs, index),
          ret |-> NoRet, states |-> sto]
    ELSE [status |-> "ok",
          ret    |-> [freq |-> np_sqrt(extractEigenvalue(pairs, index).eig * Scale),
                      vec |-> asm.vars, num |-> -1, val |-> PyInt(0)],
          states |-> Filled(sto, extractEigenvector(pairs, index, createVec(asm)))]

\* variant: only a Vec storage is filled, an ndarray is left as it was
getVariables_vecOnly(pairs, neigs, asm, index, sto) ==
    IF extractEigenvalueStatus(pairs, neigs, index) # "ok"
    THEN [status |-> extractEigenvalueStatus(pairs, neigs, index),
          ret |-> NoRet, states |-> sto]
    ELSE LET eigVector == extractEigenvector(pairs, index, createVec(asm))
         IN  [status |-> "ok",
              ret    |-> [freq |-> np_sqrt(extractEigenvalue(pairs, index).eig * Scale),
                          vec |-> eigVector, num |-> -1, val |-> PyInt(0)],
              states |-> IF sto.kind = "Vec" THEN Filled(sto, eigVector) ELSE sto]

\* variant: the storage is overwritten with the new vector before the
\* eigenpair is extracted
getVariables_fillFirst(pairs, neigs, asm, index, sto) ==
    IF extractEigenvalueStatus(pairs, neigs, index) # "ok"
    THEN [status |-> extractEigenvalueStatus(pairs, neigs, index),
          ret |-> NoRet, states |-> Filled(sto, createVec(asm))]
    ELSE LET eigVector == extractEigenvector(pairs, index, createVec(asm))
         IN  [status |-> "ok",
              ret    |-> [freq |-> np_sqrt(extractEigenvalue(pairs, index).eig * Scale),
                          vec |-> eigVector, num |-> -1, val |-> PyInt(0)],
              states |-> Filled(sto, eigVector)]

\* variant: an error of the extraction is caught and a zero mode is returned
getVariables_defaultOnError(pairs, neigs, asm, index, sto) ==
    IF extractEigenvalueStatus(pairs, neigs, index) # "ok"
    THEN [status |-> "ok",
          ret    |-> [freq |-> 0, vec |-> createVec(asm), num |-> -1,
                      val |-> PyInt(0)],
          states |-> Filled(sto, createVec(asm))]
    ELSE LET eigVector == extractEigenvector(pairs, index, createVec(asm))
         IN  [status |-> "ok",
              ret    |-> [freq |-> np_sqrt(extractEigenvalue(pairs, index).eig * Scale),
                          vec |-> eigVector, num |-> -1, val |-> PyInt(0)],
              states |-> Filled(sto, eigVector)]

\* getVariables(index, states): outcome, return value and storage afterwards
getVariables(pairs, neigs, asm, index, sto) ==
    IF extractEigenvalueStatus(pairs, neigs, index) # "ok"
    THEN [status |-> extractEigenvalueStatus(pairs, neigs, index),
          ret |-> NoRet, states |-> sto]
    ELSE LET eig == extractEigenvalue(pairs, index).eig
             freq == np_sqrt(eig * Scale)
             eigVector == extractEigenvector(pairs, index, createVec(asm))
         IN  [status |-> "ok",
              ret    |-> [freq |-> freq, vec |-> eigVector, num |-> -1, val |-> PyInt(0)],
              states |-> Filled(sto, eigVector)]

\* '%3.3d' % n
Digit(d) ==
    CASE d = 0 -> "0" [] d = 1 -> "1" [] d = 2 -> "2" [] d = 3 -> "3"
      [] d = 4 -> "4" [] d = 5 -> "5" [] d = 6 -> "6" [] d = 7 -> "7"
      [] d = 8 -> "8" [] OTHER -> "9"

RECURSIVE DecStr(_)
DecStr(n) == IF n < 10 THEN Digit(n) ELSE DecStr(n \div 10) \o Digit(n % 10)

\* variant: '%d', without the zero padding
Fmt3d_unpadded(n) == IF n < 0 THEN "-" \o DecStr(Abs(n)) ELSE DecStr(n)

Fmt3d(n) ==
    LET a == Abs(n)
        padded == IF a < 10 THEN "00" \o DecStr(a)
                  ELSE IF a < 100 THEN "0" \o DecStr(a)
                  ELSE DecStr(a)
    IN  IF n < 0 THEN "-" \o padded ELSE padded

\* os.path.join(outputDir, modeName) for the output directories that occur
path_join(dir, base) ==
    IF dir = "" THEN base
    ELSE IF dir = "./" THEN dir \o base
    ELSE dir \o "/" \o base

\* variant: the range includes its end point
arange_inclusive(n) == [i \in 1..(n + 1) |-> i - 1]

\* np.arange(n)
arange(n) == [i \in 1..n |-> i - 1]

\* variant: the file is written before the mode is set in the assembler
RECURSIVE writeModes_writeBeforeSet(_, _, _, _, _, _, _)
writeModes_writeBeforeSet(idx, pairs, neigs, asm, outputDir, baseName, out) ==
    IF idx = <<>> THEN [status |-> "ok", vars |-> asm.vars, written |-> out]
    ELSE LET vec == [kind |-> "Vec", data |-> createVec(asm)]
             got == getVariables(pairs, neigs, asm, Head(idx), vec)
             modeName == baseName \o "_" \o Fmt3d(Head(idx))
             fileName == path_join(outputDir, modeName) \o ".f5"
         IN  IF got.status # "ok"
             THEN [status |-> got.status, vars |-> asm.vars, written |-> out]
             ELSE writeModes_writeBeforeSet(
                      Tail(idx), pairs, neigs,
                      [asm EXCEPT !.vars = got.states.data],
                      outputDir, baseName,
                      Append(out, [file |-> fileName, index |-> Head(idx),
                                   vars |-> asm.vars]))

\* the loop of writeSolution over the mode indices
RECURSIVE writeModes(_, _, _, _, _, _, _)
writeModes(idx, pairs, neigs, asm, outputDir, baseName, out) ==
    IF idx = <<>> THEN [status |-> "ok", vars |-> asm.vars, written |-> out]
    ELSE LET vec == [kind |-> "Vec", data |-> createVec(asm)]
             got == getVariables(pairs, neigs, asm, Head(idx), vec)
             modeName == baseName \o "_" \o Fmt3d(Head(idx))
             fileName == path_join(outputDir, modeName) \o ".f5"
         IN  IF got.status # "ok"
             THEN [status |-> got.status, vars |-> asm.vars, written |-> out]
             ELSE writeModes(Tail(idx), pairs, neigs,
                             [asm EXCEPT !.vars = got.states.data],
                             outputDir, baseName,
                             Append(out, [file |-> fileName,
                                          index |-> Head(idx),
                                          vars |-> got.states.data]))

\* variant: the indices argument is not honoured, all modes are written
writeSolution_allModes(opts, cc, pairs, neigs, asm, indices) ==
    IF getOption(opts, "writeSolution")
    THEN LET outputDir == getOption(opts, "outputDir")
             baseName == IF getOption(opts, "numberSolutions")
                         THEN name \o "_" \o Fmt3d(cc)
                         ELSE name
         IN  writeModes(arange(neigs), pairs, neigs, asm, outputDir, baseName, <<>>)
    ELSE [status |-> "ok", vars |-> asm.vars, written |-> <<>>]

\* variant: the call counter is put in the name whatever numberSolutions says
writeSolution_numberAlways(opts, cc, pairs, neigs, asm, indices) ==
    IF getOption(opts, "writeSolution")
    THEN LET outputDir == getOption(opts, "outputDir")
             baseName == name \o "_" \o Fmt3d(cc)
             idx == IF indices.none THEN arange(neigs) ELSE indices.idx
         IN  writeModes(idx, pairs, neigs, asm, outputDir, baseName, <<>>)
    ELSE [status |-> "ok", vars |-> asm.vars, written |-> <<>>]

\* variant: the call counter is never put in the name
writeSolution_unnumbered(opts, cc, pairs, neigs, asm, indices) ==
    IF getOption(opts, "writeSolution")
    THEN LET outputDir == getOption(opts, "outputDir")
             idx == IF indices.none THEN arange(neigs) ELSE indices.idx
         IN  writeModes(idx, pairs, neigs, asm, outputDir, name, <<>>)
    ELSE [status |-> "ok", vars |-> asm.vars, written |-> <<>>]

\* variant: the option gates only the writer call; the modes are still
\* extracted and set in the assembler
writeSolution_gateWriterOnly(opts, cc, pairs, neigs, asm, indices) ==
    LET outputDir == getOption(opts, "outputDir")
        baseName == IF getOption(opts, "numberSolutions")
                    THEN name \o "_" \o Fmt3d(cc)
                    ELSE name
        idx == IF indices.none THEN arange(neigs) ELSE indices.idx
        r == writeModes(idx, pairs, neigs, asm, outputDir, baseName, <<>>)
    IN  IF getOption(opts, "writeSolution") THEN r
        ELSE [r EXCEPT !.written = <<>>]

\* writeSolution(indices)
writeSolution(opts, cc, pairs, neigs, asm, indices) ==
    IF getOption(opts, "writeSolution")
    THEN LET outputDir == getOption(opts, "outputDir")
             baseName == IF getOption(opts, "numberSolutions")
                         THEN name \o "_" \o Fmt3d(cc)
                         ELSE name
             idx == IF indices.none THEN arange(neigs) ELSE indices.idx
         IN  writeModes(idx, pairs, neigs, asm, outputDir, baseName, <<>>)
    ELSE [status |-> "ok", vars |-> asm.vars, written |-> <<>>]

\* TACSWarning(msg) of the unsupported operations
UnsupportedWarning(method) == method \o " method not supported for this class."

\* variant: the operation evaluates something and stores it for the caller
unsupported_evaluates(method, container) ==
    [funcs |-> container \cup {method}, warned |-> << UnsupportedWarning(method) >>]

\* addFunction / evalFunctions / evalFunctionsSens: the caller's container
\* afterwards and the warnings emitted
unsupported(method, container) ==
    [funcs |-> container, warned |-> << UnsupportedWarning(method) >>]

---------------------------------------------------------------------------
(* State machine *)

\* the results of the last operation
Outputs(op, ar, st, tr, r, sto, fn, w, wr) ==
    /\ lastOp' = op
    /\ args' = ar
    /\ status' = st
    /\ trace' = tr
    /\ ret' = r
    /\ states' = sto
    /\ funcs' = fn
    /\ warned' = w
    /\ written' = wr

\* frequency guesses given to the constructor
FGuessInputs == {10}

\* variant: the restart count is passed where the subspace size is due
KSM_swapped(subspace, restarts) ==
    [subspace |-> restarts, restarts |-> subspace]

\* tacs.TACS.KSM(self.K, self.pc, subspace, restarts)
KSM(subspace, restarts) ==
    [subspace |-> subspace, restarts |-> restarts]

\* tacs.TACS.FrequencyAnalysis(assembler, sigma, M, K, gmres, num_eigs, eig_tol)
FrequencyAnalysis(sig, neigs, eigTol) ==
    [sigma |-> sig, num_eigs |-> neigs, eig_tol |-> eigTol]

\* self.getOption(key) as _createVariables calls it; "None" stands for the
\* value of an option the dictionary does not hold
optionRead(opts, key) ==
    IF getOptionStatus(opts, key) = "ok" /\ lower(key) \in DOMAIN opts
    THEN getOption(opts, key) ELSE "None"

\* the solver objects _createVariables makes from the options as they are
\* when it runs
createSolvers(opts, sig, neigs) ==
    [gmres      |-> KSM(optionRead(opts, "subSpaceSize"),
                        optionRead(opts, "nRestarts")),
     freqSolver |-> FrequencyAnalysis(sig, neigs,
                                      optionRead(opts, "L2Convergence"))]

\* no solve() is in progress
NoRun == [step |-> 0, phase |-> "none", print_level |-> 0, restarts |-> 0,
          iters |-> 0, resid |-> <<>>]

\* variant: the option dictionary is one object that all problems share
OptionsDict_shared(owner) == "self"

\* self.options = {}: the constructor creates the dictionary, so each problem
\* holds one of its own; a dictionary is identified by the problem that owns it
OptionsDict(owner) == owner

\* the fields of a problem: what __init__ and _createVariables leave when
\* called with the options ov, fGuess fg and numFreqs nf on the assembler asm
\* (the base class takes the design variables and the node coordinates from
\* the assembler)
createProblem(ov, fg, nf, asm) ==
    [exists |-> TRUE, fGuess |-> fg, numEigs |-> nf,
     options |-> applyOptions(InitialOptions, ov).options,
     callCounter |-> -1, x |-> asm.dv, Xpts |-> asm.nodes,
     M |-> createSchurMat,
     K |-> assembleJacobian(1, 0, 0, asm),
     pc |-> Pc_factor(assembleJacobian(1, 0, 0, asm)),
     eigs |-> <<>>]

\* no second problem has been constructed
NoProblem ==
    [exists |-> FALSE, fGuess |-> 0, numEigs |-> 0, options |-> InitialOptions,
     callCounter |-> -1, x |-> 0, Xpts |-> 0, M |-> createSchurMat,
     K |-> createSchurMat, pc |-> Pc_factor(createSchurMat), eigs |-> <<>>]

\* __init__ and _createVariables, called with the options ov, the frequency
\* guess fg and numFreqs nf on an assembler holding dv and nodes.  If an
\* override is rejected the constructor raises: no problem exists, and no
\* operation is ever called on it.
Constructed(ov, fg, nf, dv, nodes) ==
    /\ fGuess = fg
    /\ userOptions = ov
    /\ numEigs = nf
    /\ options = applyOptions(InitialOptions, ov).options
    /\ gmres = createSolvers(options, fg * fg, nf).gmres
    /\ freqSolver = createSolvers(options, fg * fg, nf).freqSolver
    /\ run = NoRun
    /\ callCounter = -1
    /\ solveCalls = 0
    /\ x = dv
    /\ Xpts = nodes
    /\ assembler = [dv |-> x, nodes |-> Xpts, vars |-> ZeroVec]
    /\ M = createSchurMat
    /\ K = assembleJacobian(1, 0, 0, assembler)
    /\ pc = Pc_factor(K)
    /\ eigs = <<>>
    /\ lastOp = IF applyOptions(InitialOptions, ov).status = "ok"
                THEN "idle" ELSE "__init__"
    /\ args = IF applyOptions(InitialOptions, ov).status = "ok" THEN NoArgs
              ELSE [NoArgs EXCEPT !.key = applyOptions(InitialOptions, ov).at[1],
                                  !.val = applyOptions(InitialOptions, ov).at[2]]
    /\ status = applyOptions(InitialOptions, ov).status
    /\ trace = <<>>
    /\ ret = NoRet
    /\ states = FreshStorage("None")
    /\ funcs = {}
    /\ warned = <<>>
    /\ written = <<>>
    /\ other = NoProblem

Init ==
    \E ov \in ConstructorOptions, fg \in FGuessInputs, nf \in NumFreqsInputs,
       dv \in DesignVals, nodes \in NodeVals :
        Constructed(ov, fg, nf, dv, nodes)

Solve ==
    /\ lastOp = "idle"
    /\ solveCalls < MaxCalls
    /\ \E r \in solve(callCounter, assembler, x, Xpts, M, K, pc, sigma, numEigs) :
          /\ callCounter' = r.callCounter
          /\ assembler' = r.assembler
          /\ M' = r.M
          /\ K' = r.K
          /\ pc' = r.pc
          /\ eigs' = r.eigs
          /\ Outputs("solve", NoArgs, r.status, r.trace, NoRet,
                     FreshStorage("None"), {}, <<>>, <<>>)
    /\ solveCalls' = solveCalls + 1
    /\ UNCHANGED <<created, run, other, options, x, Xpts>>

\* setDesignVars(x) of the problem
SetDesignVars ==
    /\ lastOp = "idle"
    /\ \E v \in DesignVals :
          /\ x' = v
          /\ Outputs("setDesignVars", [NoArgs EXCEPT !.dv = v], "ok", <<>>,
                     NoRet, FreshStorage("None"), {}, <<>>, <<>>)
    /\ UNCHANGED <<created, run, other, options, callCounter, solveCalls, Xpts,
                   assembler, M, K, pc, eigs>>

\* setNodes(Xpts) of the problem
SetNodes ==
    /\ lastOp = "idle"
    /\ \E v \in NodeVals :
          /\ Xpts' = v
          /\ Outputs("setNodes", [NoArgs EXCEPT !.nodes = v], "ok", <<>>,
                     NoRet, FreshStorage("None"), {}, <<>>, <<>>)
    /\ UNCHANGED <<created, run, other, options, callCounter, solveCalls, x,
                   assembler, M, K, pc, eigs>>

\* setOption(name, value) with the arguments drawn from inputs
SetOptionFrom(inputs) ==
    /\ lastOp = "idle"
    /\ \E kv \in inputs :
          /\ options' = setOption(options, kv[1], kv[2])
          /\ Outputs("setOption", [NoArgs EXCEPT !.key = kv[1], !.val = kv[2]],
                     setOptionStatus(options, kv[1], kv[2]), <<>>,
                     NoRet, FreshStorage("None"), {}, <<>>, <<>>)
    /\ UNCHANGED <<created, run, other, callCounter, solveCalls, x, Xpts,
                   assembler, M, K, pc, eigs>>

SetOption == SetOptionFrom(SetOptionInputs)

SetOutputOption == SetOptionFrom(OutputOptionInputs)

\* getOption(name)
GetOption ==
    /\ lastOp = "idle"
    /\ \E key \in GetOptionInputs :
          Outputs("getOption", [NoArgs EXCEPT !.key = key],
                  getOptionStatus(options, key), <<>>,
                  IF getOptionStatus(options, key) = "ok"
                  THEN [NoRet EXCEPT !.val = options[lower(key)].value]
                  ELSE NoRet,
                  FreshStorage("None"), {}, <<>>, <<>>)
    /\ UNCHANGED <<created, run, other, options, callCounter, solveCalls, x, Xpts,
                   assembler, M, K, pc, eigs>>

GetNumFrequencies ==
    /\ lastOp = "idle"
    /\ Outputs("getNumFrequencies", NoArgs, "ok", <<>>,
               [NoRet EXCEPT !.num = numEigs], FreshStorage("None"), {},
               <<>>, <<>>)
    /\ UNCHANGED <<created, run, other, options, callCounter, solveCalls, x, Xpts,
                   assembler, M, K, pc, eigs>>

GetVariables ==
    /\ lastOp = "idle"
    /\ \E in \in GetVariablesInputs :
          LET sto == FreshStorage(in[2])
              r == getVariables(eigs, numEigs, assembler, in[1], sto)
          IN  Outputs("getVariables",
                      [NoArgs EXCEPT !.index = in[1], !.storage = sto],
                      r.status, <<>>, r.ret, r.states, {}, <<>>, <<>>)
    /\ UNCHANGED <<created, run, other, options, callCounter, solveCalls, x, Xpts,
                   assembler, M, K, pc, eigs>>

WriteSolution ==
    /\ lastOp = "idle"
    /\ \E indices \in IndicesInputs :
          LET r == writeSolution(options, callCounter, eigs, numEigs,
                                 assembler, indices)
          IN  /\ assembler' = [assembler EXCEPT !.vars = r.vars]
              /\ Outputs("writeSolution", [NoArgs EXCEPT !.indices = indices],
                         r.status, <<>>, NoRet, FreshStorage("None"), {},
                         <<>>, r.written)
    /\ UNCHANGED <<created, run, other, options, callCounter, solveCalls, x, Xpts,
                   M, K, pc, eigs>>

AddFunction ==
    /\ lastOp = "idle"
    /\ LET r == unsupported("addFunction", {})
       IN  Outputs("addFunction", NoArgs, "ok", <<>>, NoRet,
                   FreshStorage("None"), r.funcs, r.warned, <<>>)
    /\ UNCHANGED <<created, run, other, options, callCounter, solveCalls, x, Xpts,
                   assembler, M, K, pc, eigs>>

EvalFunctions ==
    /\ lastOp = "idle"
    /\ \E f \in FuncsInputs :
          LET r == unsupported("evalFunctions", f)
          IN  Outputs("evalFunctions", [NoArgs EXCEPT !.funcs = f], "ok", <<>>,
                      NoRet, FreshStorage("None"), r.funcs, r.warned, <<>>)
    /\ UNCHANGED <<created, run, other, options, callCounter, solveCalls, x, Xpts,
                   assembler, M, K, pc, eigs>>

EvalFunctionsSens ==
    /\ lastOp = "idle"
    /\ \E f \in FuncsInputs :
          LET r == unsupported("evalFunctionsSens", f)
          IN  Outputs("evalFunctionsSens", [NoArgs EXCEPT !.funcs = f], "ok",
                      <<>>, NoRet, FreshStorage("None"), r.funcs, r.warned,
                      <<>>)
    /\ UNCHANGED <<created, run, other, options, callCounter, solveCalls, x, Xpts,
                   assembler, M, K, pc, eigs>>

\* the call returns: the caller has taken the results of the operation
Return ==
    /\ lastOp \notin {"idle", "__init__", "solve.running"}
    /\ Outputs("idle", NoArgs, "ok", <<>>, NoRet, FreshStorage("None"), {},
               <<>>, <<>>)
    /\ UNCHANGED <<created, run, other, options, callCounter, solveCalls, x, Xpts,
                   assembler, M, K, pc, eigs>>

Next ==
    \/ Solve
    \/ SetDesignVars
    \/ SetNodes
    \/ SetOption
    \/ GetNumFrequencies
    \/ GetVariables
    \/ WriteSolution
    \/ AddFunction
    \/ EvalFunctions
    \/ EvalFunctionsSens
    \/ Return

Spec == Init /\ [][Next]_vars

\* The problem where its options and its output are studied: constructed with
\* option overrides on one mesh, or taken up in a long run after ManySolves
\* solve() calls of which the last one returned.
AfterManySolves(ov, fg, nf, dv, nodes) ==
    /\ applyOptions(InitialOptions, ov).status = "ok"
    /\ fGuess = fg
    /\ userOptions = ov
    /\ numEigs = nf
    /\ options = applyOptions(InitialOptions, ov).options
    /\ gmres = createSolvers(options, fg * fg, nf).gmres
    /\ freqSolver = createSolvers(options, fg * fg, nf).freqSolver
    /\ run = NoRun
    /\ solveCalls = ManySolves
    /\ x = dv
    /\ Xpts = nodes
    /\ \E r \in solve(ManySolves - 2, [dv |-> dv, nodes |-> nodes, vars |-> ZeroVec],
                       dv, nodes, createSchurMat, createSchurMat,
                       Pc_factor(createSchurMat), fg * fg, nf) :
          /\ r.status = "ok"
          /\ callCounter = r.callCounter
          /\ assembler = r.assembler
          /\ M = r.M
          /\ K = r.K
          /\ pc = r.pc
          /\ eigs = r.eigs
    /\ lastOp = "idle"
    /\ args = NoArgs
    /\ status = "ok"
    /\ trace = <<>>
    /\ ret = NoRet
    /\ states = FreshStorage("None")
    /\ funcs = {}
    /\ warned = <<>>
    /\ written = <<>>
    /\ other = NoProblem

InitOutput ==
    \E ov \in OutputConstructorOptions, fg \in FGuessInputs,
       nf \in NumFreqsInputs :
        \/ Constructed(ov, fg, nf, 1, 1)
        \/ AfterManySolves(ov, fg, nf, 1, 1)

NextOutput ==
    \/ Solve
    \/ SetOutputOption
    \/ GetOption
    \/ WriteSolution
    \/ Return

SpecOutput == InitOutput /\ [][NextOutput]_vars

\* Two problems on one assembler.  The operations on the second problem are
\* the same methods, applied to its fields; what they share with the first
\* problem is the assembler.

\* constructor arguments of the second problem
OtherConstructorOptions == { << <<"outputDir", PyStr("out")>> >> }

OtherFGuessInputs == {20}

OtherNumFreqsInputs == {1}

\* (key, value) pairs given to setOption of the second problem
OtherOptionInputs ==
    { <<"writeSolution", PyBool(FALSE)>>, <<"printLevel", PyStr("high")>> }

\* node coordinates given to setNodes of the second problem
OtherNodeVals == {2}

\* the operations on the second problem
OtherOps == {"other.__init__", "other.solve", "other.setNodes",
             "other.setOption", "other.writeSolution"}

\* the first problem's options after the second problem stored opts in its
\* dictionary
OptionsAfterOtherStored(opts) ==
    IF OptionsDict("other") = OptionsDict("self") THEN opts ELSE options

\* ModalProblem(...) is called a second time, on the same assembler
ConstructOther ==
    /\ lastOp = "idle"
    /\ ~other.exists
    /\ \E ov \in OtherConstructorOptions, fg \in OtherFGuessInputs,
          nf \in OtherNumFreqsInputs :
          /\ applyOptions(InitialOptions, ov).status = "ok"
          /\ other' = createProblem(ov, fg, nf, assembler)
          /\ options' = OptionsAfterOtherStored(createProblem(ov, fg, nf, assembler).options)
    /\ Outputs("other.__init__", NoArgs, "ok", <<>>, NoRet, FreshStorage("None"),
               {}, <<>>, <<>>)
    /\ UNCHANGED <<created, run, callCounter, solveCalls, x, Xpts, assembler,
                   M, K, pc, eigs>>

\* solve() of the second problem
OtherSolve ==
    /\ lastOp = "idle"
    /\ other.exists
    /\ solveCalls + other.callCounter + 1 < MaxCalls
    /\ \E r \in solve(other.callCounter, assembler, other.x, other.Xpts, other.M,
                       other.K, other.pc, other.fGuess * other.fGuess,
                       other.numEigs) :
          /\ other' = [other EXCEPT !.callCounter = r.callCounter, !.M = r.M,
                                    !.K = r.K, !.pc = r.pc, !.eigs = r.eigs]
          /\ assembler' = r.assembler
          /\ Outputs("other.solve", NoArgs, r.status, r.trace, NoRet,
                     FreshStorage("None"), {}, <<>>, <<>>)
    /\ UNCHANGED <<created, run, options, callCounter, solveCalls, x, Xpts,
                   M, K, pc, eigs>>

\* setNodes(Xpts) of the second problem
OtherSetNodes ==
    /\ lastOp = "idle"
    /\ other.exists
    /\ \E v \in OtherNodeVals :
          /\ other' = [other EXCEPT !.Xpts = v]
          /\ Outputs("other.setNodes", [NoArgs EXCEPT !.nodes = v], "ok", <<>>,
                     NoRet, FreshStorage("None"), {}, <<>>, <<>>)
    /\ UNCHANGED <<created, run, options, callCounter, solveCalls, x, Xpts,
                   assembler, M, K, pc, eigs>>

\* setOption(name, value) of the second problem
OtherSetOption ==
    /\ lastOp = "idle"
    /\ other.exists
    /\ \E kv \in OtherOptionInputs :
          /\ other' = [other EXCEPT
                          !.options = setOption(other.options, kv[1], kv[2])]
          /\ options' = OptionsAfterOtherStored(
                            setOption(other.options, kv[1], kv[2]))
          /\ Outputs("other.setOption",
                     [NoArgs EXCEPT !.key = kv[1], !.val = kv[2]],
                     setOptionStatus(other.options, kv[1], kv[2]), <<>>,
                     NoRet, FreshStorage("None"), {}, <<>>, <<>>)
    /\ UNCHANGED <<created, run, callCounter, solveCalls, x, Xpts,
                   assembler, M, K, pc, eigs>>

\* writeSolution() of the second problem
OtherWriteSolution ==
    /\ lastOp = "idle"
    /\ other.exists
    /\ LET r == writeSolution(other.options, other.callCounter, other.eigs,
                              other.numEigs, assembler,
                              [none |-> TRUE, idx |-> <<>>])
       IN  /\ assembler' = [assembler EXCEPT !.vars = r.vars]
           /\ Outputs("other.writeSolution", NoArgs, r.status, <<>>, NoRet,
                      FreshStorage("None"), {}, <<>>, r.written)
    /\ UNCHANGED <<created, run, other, options, callCounter, solveCalls, x,
                   Xpts, M, K, pc, eigs>>

\* numFreqs of the first problem where two problems are studied
SharedNumFreqsInputs == {2}

InitShared ==
    \E fg \in FGuessInputs, nf \in SharedNumFreqsInputs :
        Constructed(<<>>, fg, nf, 1, 1)

NextShared ==
    \/ Solve
    \/ GetNumFrequencies
    \/ GetVariables
    \/ WriteSolution
    \/ AddFunction
    \/ EvalFunctions
    \/ EvalFunctionsSens
    \/ ConstructOther
    \/ OtherSolve
    \/ OtherSetNodes
    \/ OtherSetOption
    \/ OtherWriteSolution
    \/ Return

SpecShared == InitShared /\ [][NextShared]_vars

\* The problem with solve() taken statement by statement and the eigensolver
\* run iteration by iteration.

\* variant: the counter is advanced after the eigensolver has returned
solveSteps_countAfterSolve ==
    <<"_updateAssemblerVars", "freqSolver.solve", "callCounter += 1",
      "printTiming">>

\* the statements of solve() that have an effect, in the order of the code
solveSteps ==
    <<"callCounter += 1", "_updateAssemblerVars", "freqSolver.solve",
      "printTiming">>

\* variant: solve() makes its solvers anew from the options as they are now
solversUsed_fromOptions(made, opts, sig, neigs) == createSolvers(opts, sig, neigs)

\* the solver objects solve() works with: self.freqSolver and, through it,
\* self.gmres, as the constructor made them
solversUsed(made, opts, sig, neigs) == made

\* the solvers of the problem in its current state
CurrentSolvers ==
    solversUsed([gmres |-> gmres, freqSolver |-> freqSolver], options,
                freqSolver.sigma, freqSolver.num_eigs)

\* decimal exponent of a tolerance given as a float
ExpOf(v) ==
    CASE v = "1e-6"  -> -6
      [] v = "1e-12" -> -12
      [] v = "1e-15" -> -15
      [] OTHER       -> 0

\* decimal exponents of the relative residuals a Ritz pair can have
ResidualExps == {-3, -13, -16}

\* relative residual of every Ritz pair when the iteration starts
InitialResidual == -3

\* the eigensolver's acceptance test of a Ritz pair: its relative residual
\* against the tolerance eig_tol it was created with
Accepted(resid, eigTol) == resid < ExpOf(eigTol)

\* the lines solve() prints when printTiming is on
TimingLines == << "TACS Solve Times" >>

\* option dictionaries handed to the constructor where the solver is studied
SolverConstructorOptions ==
    { << <<"nRestarts", PyInt(1)>>, <<"subSpaceSize", PyInt(2)>> >>,
      << <<"nRestarts", PyInt(1)>>, <<"subSpaceSize", PyInt(2)>>,
         <<"L2ConvergenceRel", PyFloat("1e-15")>> >>,
      << <<"nRestarts", PyInt(1)>>, <<"subSpaceSize", PyInt(2)>>,
         <<"L2Convergence", PyFloat("1e-15")>> >> }

\* (key, value) pairs given to setOption where the solver is studied
SolverOptionInputs ==
    { <<"nRestarts", PyInt(3)>>, <<"subSpaceSize", PyInt(1)>>,
      <<"L2Convergence", PyFloat("1e-6")>>, <<"printLevel", PyInt(2)>>,
      <<"printTiming", PyBool(TRUE)>>, <<"numberSolutions", PyBool(FALSE)>>,
      <<"writeSolution", PyBool(FALSE)>>, <<"outputDir", PyStr("out")>> }

\* the options that no longer hold the value they had after construction
OptionsChanged ==
    { k \in DefKeys :
        ~SameOption(options, applyOptions(InitialOptions, userOptions).options, k) }

\* setOption(name, value), while fewer than MaxOptionsSet options were changed
SetSolverOption ==
    /\ lastOp = "idle"
    /\ Cardinality(OptionsChanged) < MaxOptionsSet
    /\ SetOptionFrom(SolverOptionInputs)

\* position in solveSteps of the statement to execute next
Pos == IF lastOp = "idle" THEN 1 ELSE run.step

\* statement stmt of solve() is the next one to execute: in a solve() that
\* is being called, or in the one in progress
InSolve(stmt) ==
    /\ lastOp \in {"idle", "solve.running"}
    /\ lastOp = "idle" => solveCalls < MaxCalls
    /\ run.phase = "none"
    /\ Pos <= Len(solveSteps)
    /\ solveSteps[Pos] = stmt

\* the count of the solve() invocations started
Entered == solveCalls' = IF lastOp = "idle" THEN solveCalls + 1 ELSE solveCalls

\* solve() is in progress
Running(tr, w) ==
    Outputs("solve.running", NoArgs, "ok", tr, NoRet, FreshStorage("None"), {},
            w, <<>>)

\* self.callCounter += 1
SolveCount ==
    /\ InSolve("callCounter += 1")
    /\ callCounter' = callCounter + 1
    /\ Entered
    /\ run' = [run EXCEPT !.step = Pos + 1]
    /\ Running(trace, warned)
    /\ UNCHANGED <<created, other, options, x, Xpts, assembler, M, K, pc, eigs>>

\* self._updateAssemblerVars()
SolveBind ==
    /\ InSolve("_updateAssemblerVars")
    /\ assembler' = updateAssemblerVars(assembler, x, Xpts).asm
    /\ Entered
    /\ run' = [run EXCEPT !.step = Pos + 1]
    /\ Running(trace \o updateAssemblerVars(assembler, x, Xpts).trace, warned)
    /\ UNCHANGED <<created, other, options, callCounter, x, Xpts, M, K, pc, eigs>>

\* what freqSolver.solve does before it iterates: M and K are assembled and
\* the shifted operator is factored; the outcomes, with the calls made
FrequencyAnalysis_begin(asm, mmat, kmat, pcOld, sig, neigs, gen) ==
    { [status |-> o.status, M |-> o.M, K |-> o.K, pc |-> o.pc,
       trace |-> IF o.status = "ok" THEN SubSeq(o.trace, 1, 3) ELSE o.trace]
      : o \in FrequencyAnalysis_solve(asm, mmat, kmat, pcOld, sig, neigs, gen) }

\* self.freqSolver.solve(print_level=...) is entered: the pairs of the
\* previous run are dropped, M and K are assembled and the shifted operator
\* is factored; an error of these ends solve()
FreqSolveBegin ==
    /\ InSolve("freqSolver.solve")
    /\ Entered
    /\ \E b \in FrequencyAnalysis_begin(assembler, M, K, pc, freqSolver.sigma,
                                        freqSolver.num_eigs, callCounter) :
          /\ M' = b.M
          /\ K' = b.K
          /\ pc' = b.pc
          /\ eigs' = <<>>
          /\ IF b.status = "ok"
             THEN /\ run' = [step |-> Pos, phase |-> "iterating",
                             print_level |-> getOption(options, "printLevel"),
                             restarts |-> 0, iters |-> 0,
                             resid |-> [i \in 1..Min(freqSolver.num_eigs, NDof)
                                          |-> InitialResidual]]
                  /\ Running(trace \o b.trace, warned)
             ELSE /\ run' = NoRun
                  /\ Outputs("solve", NoArgs, b.status, trace \o b.trace, NoRet,
                             FreshStorage("None"), {}, warned, <<>>)
    /\ UNCHANGED <<created, other, options, callCounter, x, Xpts, assembler>>

\* every requested pair has passed the acceptance test
AllConverged ==
    \A i \in DOMAIN run.resid :
        Accepted(run.resid[i], CurrentSolvers.freqSolver.eig_tol)

\* the iterations of the current cycle are used up
CycleDone == run.iters >= CurrentSolvers.gmres.subspace

\* one iteration of the eigensolver: the residuals do not grow, and a pair
\* closer to the shift is at least as far converged as one farther from it
Iterate ==
    /\ lastOp = "solve.running" /\ run.phase = "iterating"
    /\ ~AllConverged /\ ~CycleDone
    /\ \E rs \in [DOMAIN run.resid -> ResidualExps] :
          /\ \A i \in DOMAIN rs : rs[i] <= run.resid[i]
          /\ \A i, j \in DOMAIN rs : i < j => rs[i] <= rs[j]
          /\ run' = [run EXCEPT !.iters = @ + 1, !.resid = rs]
    /\ Running(trace, warned)
    /\ UNCHANGED <<created, other, options, callCounter, solveCalls, x, Xpts,
                   assembler, M, K, pc, eigs>>

\* the eigensolver restarts with its best current subspace
Restart ==
    /\ lastOp = "solve.running" /\ run.phase = "iterating"
    /\ ~AllConverged /\ CycleDone
    /\ run.restarts < CurrentSolvers.gmres.restarts
    /\ run' = [run EXCEPT !.restarts = @ + 1, !.iters = 0]
    /\ Running(trace, warned)
    /\ UNCHANGED <<created, other, options, callCounter, solveCalls, x, Xpts,
                   assembler, M, K, pc, eigs>>

\* self.freqSolver.solve returns: all pairs are accepted, or the budget is
\* used up and the pairs that were not accepted are kept as they are or
\* left out
FreqSolveEnd ==
    /\ lastOp = "solve.running" /\ run.phase = "iterating"
    /\ \/ AllConverged
       \/ CycleDone /\ run.restarts >= CurrentSolvers.gmres.restarts
    /\ \E r \in FrequencyAnalysis_solve(assembler, M, K, pc, freqSolver.sigma,
                                        freqSolver.num_eigs, callCounter) :
          /\ r.status = "ok"
          /\ \A i \in DOMAIN r.eigs :
                (r.eigs[i].err = ErrConverged)
                    <=> Accepted(run.resid[i], CurrentSolvers.freqSolver.eig_tol)
          /\ eigs' = r.eigs
          /\ Running(trace \o SubSeq(r.trace, 4, 4), warned)
    /\ run' = [run EXCEPT !.phase = "none", !.step = @ + 1]
    /\ UNCHANGED <<created, other, options, callCounter, solveCalls, x, Xpts,
                   assembler, M, K, pc>>

\* if self.getOption('printTiming'): self.pp(...)
SolvePrintTiming ==
    /\ InSolve("printTiming")
    /\ Entered
    /\ run' = [run EXCEPT !.step = Pos + 1]
    /\ Running(trace, IF getOption(options, "printTiming")
                      THEN warned \o TimingLines ELSE warned)
    /\ UNCHANGED <<created, other, options, callCounter, x, Xpts, assembler,
                   M, K, pc, eigs>>

\* return
SolveReturn ==
    /\ lastOp = "solve.running" /\ run.phase = "none"
    /\ run.step > Len(solveSteps)
    /\ run' = NoRun
    /\ Outputs("solve", NoArgs, "ok", trace, NoRet, FreshStorage("None"), {},
               warned, <<>>)
    /\ UNCHANGED <<created, other, options, callCounter, solveCalls, x, Xpts,
                   assembler, M, K, pc, eigs>>

\* numFreqs, design variables and node coordinates where the solver is studied
SolverNumFreqsInputs == {1, 2}

InitSolver ==
    \E ov \in SolverConstructorOptions, fg \in FGuessInputs,
       nf \in SolverNumFreqsInputs :
        Constructed(ov, fg, nf, 1, 2)

\* a step of the solve() in progress
SolveProgress ==
    /\ lastOp = "solve.running"
    /\ \/ SolveCount
       \/ SolveBind
       \/ FreqSolveBegin
       \/ Iterate
       \/ Restart
       \/ FreqSolveEnd
       \/ SolvePrintTiming
       \/ SolveReturn

NextSolver ==
    \/ SolveCount
    \/ SolveBind
    \/ FreqSolveBegin
    \/ Iterate
    \/ Restart
    \/ FreqSolveEnd
    \/ SolvePrintTiming
    \/ SolveReturn
    \/ WriteSolution
    \/ Return

SpecSolver == InitSolver /\ [][NextSolver]_vars

\* the execution is synchronous: a solve() in progress takes its next step
SpecSolverFair == SpecSolver /\ WF_vars(SolveProgress)

\* The problem where options are set between construction and the solves
ConfigConstructorOptions ==
    { << <<"nRestarts", PyInt(1)>>, <<"subSpaceSize", PyInt(2)>> >> }

\* numFreqs where options are set between the solves
ConfigNumFreqsInputs == {1}

InitConfig ==
    \E ov \in ConfigConstructorOptions, fg \in FGuessInputs,
       nf \in ConfigNumFreqsInputs :
        Constructed(ov, fg, nf, 1, 2)

NextConfig ==
    \/ SolveCount
    \/ SolveBind
    \/ FreqSolveBegin
    \/ Iterate
    \/ Restart
    \/ FreqSolveEnd
    \/ SolvePrintTiming
    \/ SolveReturn
    \/ SetSolverOption
    \/ WriteSolution
    \/ Return

SpecConfig == InitConfig /\ [][NextConfig]_vars

---------------------------------------------------------------------------
(* Properties *)

\* positions in the trace of the last solve() at which a collaborator was called
StepsOf(ev) == { i \in DOMAIN trace : trace[i].ev = ev }

\* the collaborator call ev was made exactly once, with argument arg
CalledOnce(ev, arg) ==
    /\ Cardinality(StepsOf(ev)) = 1
    /\ \A i \in StepsOf(ev) : trace[i].arg = arg

\* every call of ev precedes every call of later
Precedes(ev, later) == \A i \in StepsOf(ev), j \in StepsOf(later) : i < j

\* the order in which solve() works
SolveOrder == <<"setDesignVars", "setNodes", "assembleM", "assembleK",
                "factor", "eigensolve">>

\* the bind / assemble / factor / eigensolve stage of a collaborator call
StageOf(ev) ==
    CASE ev \in {"setDesignVars", "setNodes"} -> 1
      [] ev \in {"assembleM", "assembleK"}     -> 2
      [] ev = "factor"                         -> 3
      [] OTHER                                 -> 4

\* C1: every solve() binds the problem's current design variables and node
\* coordinates, then reassembles M and K, then factors the shifted operator,
\* then runs the eigensolver: a solve() that returns has made each of these
\* calls exactly once, in this order, on the first call and on every later
\* one; a solve() that raises has made them in this order up to the step
\* that failed.  The operators and the factorization it leaves are those of
\* this call.
C1_SolveStepsInOrder ==
    lastOp = "solve" =>
        /\ CalledOnce("setDesignVars", x)
        /\ CalledOnce("setNodes", Xpts)
        /\ \A i, j \in DOMAIN trace :
              i < j => StageOf(trace[i].ev) <= StageOf(trace[j].ev)
        /\ \A i \in DOMAIN trace : trace[i].ev \in
              {SolveOrder[k] : k \in DOMAIN SolveOrder}
        /\ status = "ok" =>
              /\ CalledOnce("assembleM", x)
              /\ CalledOnce("assembleK", x)
              /\ CalledOnce("factor", x)
              /\ CalledOnce("eigensolve", Min(numEigs, NDof))
              /\ Len(trace) = Len(SolveOrder)
              /\ M = assembleMass([dv |-> x, nodes |-> Xpts])
              /\ K = assembleStiffness([dv |-> x, nodes |-> Xpts])
              /\ pc.factored /\ pc.of = "shifted"
        /\ status = "SingularOperator" =>
              /\ CalledOnce("assembleM", x)
              /\ CalledOnce("assembleK", x)
              /\ CalledOnce("factor", x)
              /\ StepsOf("eigensolve") = {}
        /\ status = "AssemblyError" =>
              StepsOf("factor") \cup StepsOf("eigensolve") = {}

\* C1 witness: a second solve() has returned after a first one that also ran
\* the eigensolver (its mode shape was written in between)
C1_Witness ==
    /\ lastOp = "solve" /\ status = "ok" /\ callCounter = 1
    /\ Len(trace) = Len(SolveOrder)
    /\ assembler.vars # ZeroVec

\* the shifted operator of the problem's current variables
CurrentShifted ==
    ShiftedOperator(assembleStiffness([dv |-> x, nodes |-> Xpts]),
                    assembleMass([dv |-> x, nodes |-> Xpts]),
                    fGuess * fGuess)

\* C2: whenever the eigensolver has run in a solve(), the factorization it
\* used was made in that solve() from operators assembled from the problem's
\* current design variables and node coordinates, also when the variables
\* were changed since the previous solve().
C2_FactorizationIsCurrent ==
    (lastOp = "solve" /\ StepsOf("eigensolve") # {}) =>
        /\ pc.factored
        /\ pc.dv = x /\ pc.nodes = Xpts
        /\ pc.diag = CurrentShifted.diag
        /\ K.dv = x /\ K.nodes = Xpts /\ M.dv = x /\ M.nodes = Xpts
        /\ StepsOf("factor") # {} /\ Precedes("factor", "eigensolve")
        /\ \A s \in DOMAIN eigs :
              eigs[s].vec \in { EigenvectorOf(assembleMass([dv |-> x, nodes |-> Xpts]), i)
                                : i \in Dofs }

\* C2 witness: the eigensolver has run in a second solve() with node
\* coordinates 1 after a first solve() with node coordinates 2, whose mode
\* shape (normalised for that mass) was written and is still in the assembler
C2_Witness ==
    /\ lastOp = "solve" /\ status = "ok" /\ callCounter = 1
    /\ Xpts = 1 /\ Len(eigs) > 0
    /\ \E i \in Dofs : assembler.vars[i] = ISqrt((Scale * Scale) \div 2)

\* C3: callCounter is -1 after construction, it equals the number of solve()
\* calls made minus one in every state, it never decreases, and a step changes
\* it only if the step is a solve(), which adds exactly 1.
C3_CallCounter ==
    /\ callCounter = -1
    /\ [](callCounter = solveCalls - 1)
    /\ [][ /\ callCounter' >= callCounter
           /\ (lastOp' = "solve") => callCounter' = callCounter + 1
           /\ (lastOp' # "solve") => callCounter' = callCounter ]_vars

\* C3 witness: two solve() calls have been made, the second of which failed
C3_Witness ==
    /\ solveCalls = 2 /\ callCounter = 1
    /\ lastOp = "solve" /\ status # "ok"

\* |eigenvalue - fGuess^2| of a retained pair
ShiftDistance(pair) == Abs(pair.eig - fGuess * fGuess)

\* the eigenvalues of the operators the problem holds
ProblemEigenvalues == { EigenvalueOf(K, M, i) : i \in Dofs }

\* C4: the eigenpairs retained after a solve() are at most numEigs, they are
\* ranked by ascending |eigenvalue - fGuess^2|, and the pair at index 0 is an
\* eigenvalue of the problem than which none is closer to fGuess^2.
C4_PairsRankedByShiftDistance ==
    /\ Len(eigs) <= numEigs
    /\ \A i, j \in DOMAIN eigs :
          i < j => ShiftDistance(eigs[i]) <= ShiftDistance(eigs[j])
    /\ eigs # <<>> =>
          /\ eigs[1].eig \in ProblemEigenvalues
          /\ \A ev \in ProblemEigenvalues :
                ShiftDistance(eigs[1]) <= Abs(ev - fGuess * fGuess)

\* C4 witness: three pairs are retained whose first is not the smallest
\* eigenvalue of the problem and whose last is farther from the shift
C4_Witness ==
    /\ lastOp = "solve" /\ status = "ok" /\ Len(eigs) = 3
    /\ \E ev \in ProblemEigenvalues : ev < eigs[1].eig
    /\ ShiftDistance(eigs[1]) < ShiftDistance(eigs[3])

\* the scenario: sigma = 100, numEigs = 3, K = diag(90, 95, 105, 300), M = I,
\* solved with the three requested pairs converged
Scenario ==
    /\ fGuess * fGuess = 100 /\ numEigs = 3
    /\ K.kind = "stiffness" /\ K.diag = <<90, 95, 105, 300>>
    /\ M.kind = "mass" /\ M.diag = <<1, 1, 1, 1>>
    /\ Len(eigs) = 3
    /\ \A s \in DOMAIN eigs : eigs[s].conv /\ eigs[s].err = ErrConverged

\* eigenvalue and frequency extracted at a mode index in the current state
EigenvalueAt(index) == extractEigenvalue(eigs, index).eig

FrequencyAt(index) ==
    getVariables(eigs, numEigs, assembler, index, FreshStorage("None")).ret.freq

UnsupportedOps == {"addFunction", "evalFunctions", "evalFunctionsSens"}

\* C6: addFunction, evalFunctions and evalFunctionsSens return normally, emit
\* one warning, and change neither the problem (counter, options, eigenpairs,
\* operators, factorization, variables, the assembler) nor the container the
\* caller passed.
C6_UnsupportedOpsAreNoOps ==
    [][ lastOp' \in UnsupportedOps =>
          /\ status' = "ok"
          /\ warned' = << UnsupportedWarning(lastOp') >>
          /\ funcs' = args'.funcs
          /\ ret' = NoRet
          /\ UNCHANGED <<fGuess, numEigs, options, callCounter, solveCalls, x,
                         Xpts, assembler, M, K, pc, eigs>> ]_vars

\* C6 witness: evalFunctions was called with a non-empty container after a
\* solve() that produced eigenpairs
C6_Witness ==
    /\ lastOp = "evalFunctions" /\ args.funcs # {} /\ funcs = args.funcs
    /\ warned # <<>> /\ eigs # <<>> /\ callCounter = 0

\* C7: a solve() whose assembly or factorization fails raises that
\* component's error (the factorization fails exactly when the shifted
\* operator of the current variables is singular), has not run the
\* eigensolver, and leaves no eigenpair to extract.
C7_FailedSolveLeavesNoResult ==
    lastOp = "solve" =>
        /\ StepsOf("assembleK") = {} => status = "AssemblyError"
        /\ (StepsOf("assembleK") # {} /\ IsSingular(CurrentShifted)) =>
              status = "SingularOperator"
        /\ status = "SingularOperator" => IsSingular(CurrentShifted) /\ ~pc.factored
        /\ status # "ok" =>
              /\ status \in {"AssemblyError", "SingularOperator"}
              /\ StepsOf("eigensolve") = {}
              /\ \A s \in DOMAIN eigs : eigs[s].gen # callCounter
              /\ \A i \in IndexInputs : \A k \in StorageKinds :
                    getVariables(eigs, numEigs, assembler, i,
                                 FreshStorage(k)).status # "ok"

\* C7 witness: a second solve() failed at the factorization after a first
\* one had produced eigenpairs
C7_Witness ==
    /\ lastOp = "solve" /\ status = "SingularOperator" /\ callCounter = 1
    /\ assembler.vars # ZeroVec

\* outcome, frequency and eigenvector getVariables gives for every index in
\* a state with eigenpairs pairs and assembler asm
GetVariablesTable(pairs, neigs, asm) ==
    [i \in IndexInputs |-> getVariables(pairs, neigs, asm, i, FreshStorage("None"))]

\* C8: a step that is not a solve() changes nothing of what getVariables
\* returns for any index: two calls with the same index and no solve() in
\* between return the same frequency and eigenvector, whatever storage is
\* passed and whatever getVariables, getNumFrequencies, writeSolution or
\* unsupported calls lie between them.
C8_GetVariablesIdempotent ==
    [][ /\ lastOp' # "solve" =>
              GetVariablesTable(eigs', numEigs', assembler')
                = GetVariablesTable(eigs, numEigs, assembler)
        /\ lastOp' = "getVariables" =>
              /\ ret' = GetVariablesTable(eigs, numEigs, assembler)[args'.index].ret
              /\ status' = GetVariablesTable(eigs, numEigs, assembler)[args'.index].status
      ]_vars

\* C8 witness: getVariables has returned a mode after writeSolution moved the
\* assembler's state variables to another mode shape
C8_Witness ==
    /\ lastOp = "getVariables" /\ status = "ok"
    /\ assembler.vars # ZeroVec /\ ret.vec # assembler.vars

\* C9 as stated: after a successful getVariables with a storage of any kind,
\* the storage holds the eigenvector returned
C9_Original ==
    (lastOp = "getVariables" /\ status = "ok" /\ args.storage.kind # "None") =>
        states.data = ret.vec

\* C9 amended: a Vec or a floating-point ndarray holds the eigenvector
\* returned; an integer ndarray holds it truncated; any other storage is
\* left as it was passed
C9_VecAndArrayStorageFilled ==
    (lastOp = "getVariables" /\ status = "ok") =>
        /\ args.storage.kind \in {"Vec", "ndarray"} =>
              states.kind = args.storage.kind /\ states.data = ret.vec
        /\ args.storage.kind = "ndarray_int" =>
              states.data = [i \in Dofs |-> IntCast(ret.vec[i])]
        /\ args.storage.kind \in {"list", "None"} => states = args.storage
        /\ ret.vec = eigs[args.index + 1].vec

\* C9 witness: an ndarray was passed and holds a mode shape on return
C9_Witness ==
    /\ lastOp = "getVariables" /\ status = "ok"
    /\ args.storage.kind = "ndarray"
    /\ states.data = ret.vec /\ states.data # args.storage.data

\* the slot of index holds no converged pair
NoConvergedPairAt(index) ==
    index >= numEigs \/ index >= Len(eigs) \/ ~eigs[index + 1].conv

\* C10: getVariables with an index >= numEigs, or with the index of a slot
\* that did not converge, raises IndexOutOfRange, returns nothing and leaves
\* the storage as it was passed; with any other index it succeeds.
C10_BadIndexRaises ==
    lastOp = "getVariables" =>
        /\ NoConvergedPairAt(args.index) =>
              /\ status = "IndexOutOfRange"
              /\ ret = NoRet
              /\ states = args.storage
        /\ ~NoConvergedPairAt(args.index) => status = "ok"

\* C10 witness: a Vec was passed with the index of a retained slot that did
\* not converge
C10_Witness ==
    /\ lastOp = "getVariables" /\ status = "IndexOutOfRange"
    /\ args.storage.kind = "Vec" /\ args.index < Len(eigs)
    /\ states = args.storage

\* no index at all yields a pair
NoPairExtractable ==
    \A i \in IndexInputs : \A k \in StorageKinds :
        getVariables(eigs, numEigs, assembler, i, FreshStorage(k)).status
            = "IndexOutOfRange"

\* C11: with numEigs = 0 a solve() whose assembly and factorization pass
\* returns normally with no eigenpair and has advanced callCounter,
\* getVariables raises IndexOutOfRange for every index and leaves the
\* storage alone, and writeSolution() with indices omitted returns normally
\* having made no writer call.
C11_NoEigenpairsRequested ==
    numEigs = 0 =>
        /\ eigs = <<>>
        /\ NoPairExtractable
        /\ lastOp = "solve" =>
              /\ callCounter = solveCalls - 1 /\ callCounter >= 0
              /\ status \in {"ok", "AssemblyError", "SingularOperator"}
              /\ (StepsOf("assembleK") # {} /\ ~IsSingular(CurrentShifted)) =>
                    status = "ok" /\ CalledOnce("eigensolve", 0)
        /\ lastOp = "getVariables" =>
              status = "IndexOutOfRange" /\ ret = NoRet /\ states = args.storage
        /\ (lastOp = "writeSolution" /\ args.indices.none) =>
              status = "ok" /\ written = <<>>

\* C11 witness: with numEigs = 0, writeSolution() with indices omitted has
\* returned after a solve() that succeeded
C11_Witness ==
    /\ numEigs = 0 /\ callCounter = 0 /\ pc.factored /\ pc.of = "shifted"
    /\ lastOp = "writeSolution" /\ args.indices.none
    /\ getOption(options, "writeSolution")

\* the mode indices a writeSolution call was asked for
RequestedIndices ==
    IF args.indices.none THEN [i \in 1..numEigs |-> i - 1] ELSE args.indices.idx

\* the mode indices of the writer calls made, in the order they were made
WrittenIndices == [i \in DOMAIN written |-> written[i].index]

\* C12 as stated: with the writeSolution option on, writeSolution(indices)
\* with indices below numEigs, or omitted, makes exactly one writer call per
\* requested index, in the order given
C12_Original ==
    ( /\ lastOp = "writeSolution" /\ getOption(options, "writeSolution")
      /\ \A i \in DOMAIN RequestedIndices : RequestedIndices[i] < numEigs ) =>
        status = "ok" /\ WrittenIndices = RequestedIndices

\* C12 amended: with the writeSolution option on, a writeSolution(indices) that
\* returns has made exactly one writer call per requested index, in the
\* order given (for omitted indices: 0 .. numEigs-1); it returns exactly when
\* every requested index holds a converged pair, and otherwise raises at the
\* first index that does not, having written the indices before it.
C12_OneWritePerIndexInOrder ==
    (lastOp = "writeSolution" /\ getOption(options, "writeSolution")) =>
        /\ status = "ok" <=>
              \A i \in DOMAIN RequestedIndices :
                  ~NoConvergedPairAt(RequestedIndices[i])
        /\ status = "ok" => WrittenIndices = RequestedIndices
        /\ status # "ok" =>
              /\ status = "IndexOutOfRange"
              /\ Len(written) < Len(RequestedIndices)
              /\ WrittenIndices = SubSeq(RequestedIndices, 1, Len(written))
              /\ NoConvergedPairAt(RequestedIndices[Len(written) + 1])

\* C12 witness: writeSolution([1, 0]) has written mode 1, then mode 0
C12_Witness ==
    /\ lastOp = "writeSolution" /\ status = "ok"
    /\ args.indices.idx = <<1, 0>> /\ WrittenIndices = <<1, 0>>
    /\ numEigs = 3

\* C13: with the writeSolution option off, writeSolution(indices) returns
\* normally for any indices, makes no writer call and changes nothing: the
\* assembler (its state variables included), callCounter, the eigenpairs,
\* the operators, the factorization and the options are as before.
C13_DisabledWriteIsNoOp ==
    [][ (lastOp' = "writeSolution" /\ ~getOption(options, "writeSolution")) =>
          /\ status' = "ok"
          /\ written' = <<>>
          /\ UNCHANGED <<fGuess, numEigs, options, callCounter, solveCalls, x,
                         Xpts, assembler, M, K, pc, eigs>> ]_vars

\* C13 witness: writeSolution() was called with the option off while
\* converged eigenpairs were held and no mode had been set in the assembler
C13_Witness ==
    /\ lastOp = "writeSolution" /\ ~getOption(options, "writeSolution")
    /\ args.indices.none /\ written = <<>>
    /\ eigs # <<>> /\ eigs[1].conv /\ assembler.vars = ZeroVec

\* the pair at a mode index did not meet the tolerance within the budget
Unconverged(index) ==
    /\ index < Len(eigs)
    /\ eigs[index + 1].conv /\ eigs[index + 1].err = ErrElevated

\* C20 as stated: solve() does not raise on non-convergence, and whenever
\* getVariables hands the caller a pair that did not meet the tolerance, the
\* caller also receives its elevated error estimate, or a warning that flags
\* it
C20_Original ==
    /\ (lastOp = "solve" /\ status # "ok") =>
          status \in {"AssemblyError", "SingularOperator"}
    /\ (lastOp = "getVariables" /\ status = "ok" /\ Unconverged(args.index)) =>
          \/ "err" \in DOMAIN ret /\ ret.err = eigs[args.index + 1].err
          \/ warned # <<>>

\* C17: at each writer call of writeSolution the assembler's state variables
\* are the eigenvector of the mode index being written; a writeSolution that
\* made a writer call leaves the eigenvector of the last index written in
\* the assembler, whatever it held before, and one that made none leaves the
\* assembler as it was.
C17_ModeSetBeforeWrite ==
    [][ lastOp' = "writeSolution" =>
          /\ \A i \in DOMAIN written' :
                written'[i].vars = eigs[written'[i].index + 1].vec
          /\ written' # <<>> =>
                assembler'.vars = eigs[written'[Len(written')].index + 1].vec
          /\ written' = <<>> => assembler'.vars = assembler.vars
          /\ assembler'.dv = assembler.dv /\ assembler'.nodes = assembler.nodes
      ]_vars

\* C17 witness: writeSolution([1, 0]) has returned and the assembler holds
\* mode 0, the last one written, which differs from mode 1
C17_Witness ==
    /\ lastOp = "writeSolution" /\ status = "ok" /\ Len(written) = 2
    /\ written[1].index = 1 /\ written[2].index = 0
    /\ assembler.vars = eigs[1].vec /\ assembler.vars # eigs[2].vec
    /\ written[1].vars = eigs[2].vec

\* the declared type of every option, as the option table of the design lists it
DeclaredTypes ==
    [outputdir |-> "str", l2convergence |-> "float", l2convergencerel |-> "float",
     subspacesize |-> "int", nrestarts |-> "int", outputfrequency |-> "int",
     writesolution |-> "bool", numbersolutions |-> "bool",
     printtiming |-> "bool", printlevel |-> "int"]

\* every option holds a value of its declared type
TypesRespected ==
    \A k \in DOMAIN DeclaredTypes :
        k \in DOMAIN options /\ options[k].value.t = DeclaredTypes[k]

\* option k holds a value it can hold right after construction: its
\* default, or an override given to the constructor
HoldsConstructionValue(k) ==
    \/ \E n \in DOMAIN defOpts :
          lower(n) = k /\ PyEq(options[k].value, defOpts[n].value)
    \/ \E ov \in OutputConstructorOptions : \E i \in DOMAIN ov :
          lower(ov[i][1]) = k /\ PyEq(options[k].value, ov[i][2])

\* C18: a set whose value has another type than the option's declared type
\* raises TypeMismatch and leaves every option as it was, in a later
\* setOption call and in the constructor alike, so that every option always
\* holds a value of its declared type; a set of the right type overrides
\* that option only; an option changes by nothing but a successful set of
\* it, so that a get of an option never set returns its default.
C18_TypeMismatchRejected ==
    /\ \A k \in DOMAIN DeclaredTypes : HoldsConstructionValue(k)
    /\ [](TypesRespected)
    /\ []( (lastOp = "__init__" /\ status = "TypeMismatch") =>
              /\ args.val.t # DeclaredTypes[lower(args.key)]
              /\ ~PyEq(options[lower(args.key)].value, args.val) )
    /\ []( (lastOp = "getOption" /\ status = "ok") =>
              PyEq(ret.val, options[lower(args.key)].value) )
    /\ [][ /\ (lastOp' = "setOption" /\ lower(args'.key) \in DOMAIN DeclaredTypes) =>
                 /\ status' = "TypeMismatch" <=>
                       args'.val.t # DeclaredTypes[lower(args'.key)]
                 /\ status' = "TypeMismatch" =>
                       \A k \in DOMAIN DeclaredTypes : SameOption(options', options, k)
                 /\ status' # "TypeMismatch" =>
                       /\ status' = "ok"
                       /\ PyEq(options'[lower(args'.key)].value, args'.val)
           /\ DOMAIN options' = DOMAIN options
           /\ options'["defaults"] = options["defaults"]
           /\ \A k \in DOMAIN DeclaredTypes :
                 ~SameOption(options', options, k) =>
                     /\ lastOp' = "setOption" /\ status' = "ok"
                     /\ k = lower(args'.key) ]_vars

\* C18 witness: after numberSolutions was set to False, a set of it with an
\* integer raised TypeMismatch and the option is still False
C18_Witness ==
    /\ lastOp = "setOption" /\ status = "TypeMismatch"
    /\ args.key = "NUMBERSOLUTIONS" /\ args.val = PyInt(0)
    /\ options["numbersolutions"].value = PyBool(FALSE)
    /\ options["outputdir"].value = PyStr("out")

\* C19: the registry holds exactly the lower-cased names of the default
\* table (next to the default table itself, stored under 'defaults');
\* getOption and setOption of a name outside the table raise UnknownOption,
\* those of a name in the table in any letter case do not, a set never adds
\* an entry, and names that differ only in case address the same option.
C19_OptionKeysFixed ==
    /\ DOMAIN options = DOMAIN DeclaredTypes \cup {"defaults"}
    /\ DOMAIN options["defaults"] = DOMAIN DeclaredTypes
    /\ lastOp \in {"getOption", "setOption", "__init__"} =>
          /\ status = "UnknownOption" <=>
                \A k \in DOMAIN DeclaredTypes : lower(args.key) # k
          /\ args.key \notin DOMAIN DeclaredTypes =>
                \/ status = "UnknownOption"
                \/ lower(args.key) \in DOMAIN DeclaredTypes
    /\ (lastOp = "getOption" /\ args.key \in {"outputDir", "OUTPUTDIR"}) =>
          status = "ok" /\ PyEq(ret.val, options["outputdir"].value)
    /\ (lastOp = "setOption" /\ args.key \in {"outputDir", "OUTPUTDIR"}) =>
          status = "ok" /\ PyEq(options["outputdir"].value, args.val)

\* C19 witness: getOption('OUTPUTDIR') has returned the value that
\* setOption stored
C19_Witness ==
    /\ lastOp = "getOption" /\ args.key = "OUTPUTDIR" /\ status = "ok"
    /\ ret.val = PyStr("out") /\ callCounter = 0

StartsWith(str, pre) ==
    Len(str) >= Len(pre) /\ SubSeq(str, 1, Len(pre)) = pre

EndsWith(str, suf) ==
    Len(str) >= Len(suf) /\ SubSeq(str, Len(str) - Len(suf) + 1, Len(str)) = suf

\* value of a decimal digit character; -1 for any other character
DigitValue(c) ==
    CASE c = "0" -> 0 [] c = "1" -> 1 [] c = "2" -> 2 [] c = "3" -> 3
      [] c = "4" -> 4 [] c = "5" -> 5 [] c = "6" -> 6 [] c = "7" -> 7
      [] c = "8" -> 8 [] c = "9" -> 9 [] OTHER -> -1

IsDigits(str) ==
    Len(str) > 0 /\ \A i \in 1..Len(str) : DigitValue(SubSeq(str, i, i)) >= 0

\* the number a string of decimal digits writes
RECURSIVE DecimalValue(_)
DecimalValue(str) ==
    IF Len(str) = 0 THEN 0
    ELSE 10 * DecimalValue(SubSeq(str, 1, Len(str) - 1))
         + DigitValue(SubSeq(str, Len(str), Len(str)))

\* a field of exactly three decimal digits that writes n
ThreeDigitsOf(str, n) == Len(str) = 3 /\ IsDigits(str) /\ DecimalValue(str) = n

\* a field of decimal digits that writes n, zero-padded to three digits and
\* no further
PaddedDigitsOf(str, n) ==
    /\ IsDigits(str) /\ DecimalValue(str) = n
    /\ Len(str) >= 3
    /\ Len(str) > 3 => SubSeq(str, 1, 1) # "0"

\* what precedes the numeric fields in the file name of an artifact of the
\* problem: the output directory and the problem's name
ArtifactPrefix ==
    LET dir == getOption(options, "outputDir")
    IN  (IF EndsWith(dir, "/") THEN dir ELSE dir \o "/") \o name \o "_"

\* the artifact lies under the output directory, carries the problem's name
\* and the extension of the writer
WellPlaced(file) == StartsWith(file, ArtifactPrefix) /\ EndsWith(file, ".f5")

\* the numeric fields of its file name
FieldsOf(file) == SubSeq(file, Len(ArtifactPrefix) + 1, Len(file) - 3)

\* C14 as stated: with numberSolutions on, every artifact written is named
\* {name}_{callCounter}_{modeIndex} under outputdir, both fields of exactly
\* three digits
C14_Original ==
    (lastOp = "writeSolution" /\ getOption(options, "numberSolutions")) =>
        \A i \in DOMAIN written :
            /\ WellPlaced(written[i].file)
            /\ Len(FieldsOf(written[i].file)) = 7
            /\ ThreeDigitsOf(SubSeq(FieldsOf(written[i].file), 1, 3), callCounter)
            /\ SubSeq(FieldsOf(written[i].file), 4, 4) = "_"
            /\ ThreeDigitsOf(SubSeq(FieldsOf(written[i].file), 5, 7),
                             written[i].index)

\* C14 amended: with numberSolutions on and a counter that is not negative,
\* every artifact written is named {name}_{callCounter}_{modeIndex} under
\* outputdir, with the counter of the time of the write and the mode
\* written, each zero-padded to three digits: three digits up to 999, all
\* the digits of the value beyond.  Before the first solve() the counter is
\* -1, which formats to -001.
C14_ArtifactNames ==
    /\ ( /\ lastOp = "writeSolution" /\ getOption(options, "numberSolutions")
         /\ callCounter >= 0 ) =>
          \A i \in DOMAIN written :
              LET f == FieldsOf(written[i].file)
              IN  /\ WellPlaced(written[i].file)
                  /\ Len(f) >= 7
                  /\ PaddedDigitsOf(SubSeq(f, 1, Len(f) - 4), callCounter)
                  /\ callCounter <= 999 => Len(f) = 7
                  /\ SubSeq(f, Len(f) - 3, Len(f) - 3) = "_"
                  /\ ThreeDigitsOf(SubSeq(f, Len(f) - 2, Len(f)), written[i].index)
    /\ callCounter = -1 => Fmt3d(callCounter) = "-001"

\* C14 witness: a mode was written under the directory out after more than
\* a thousand solve() calls
C14_Witness ==
    /\ lastOp = "writeSolution" /\ getOption(options, "numberSolutions")
    /\ callCounter >= 1000 /\ Len(written) = 2
    /\ getOption(options, "outputDir") = "out"

\* the registries an earlier writeSolution can have seen
OutputSettings ==
    { [options EXCEPT !["numbersolutions"].value = PyBool(b),
                      !["outputdir"].value = PyStr(d)]
      : b \in BOOLEAN, d \in {"./", "out"} }

\* the file names writeSolution() gives the modes when the registry is opts
\* and the counter cc
ArtifactNames(opts, cc) ==
    LET w == writeSolution(opts, cc, eigs, numEigs, assembler,
                           [none |-> TRUE, idx |-> <<>>]).written
    IN  { w[i].file : i \in DOMAIN w }

\* the counter values of the solve() calls before the last one
EarlierCounters ==
    { c \in (callCounter - MaxCalls)..(callCounter - 1) : c >= 0 }

\* writeSolution() has written all modes of a second or later solve()
WroteAllModesAgain ==
    /\ lastOp = "writeSolution" /\ status = "ok" /\ args.indices.none
    /\ getOption(options, "writeSolution")
    /\ callCounter >= 1

\* C15 as stated: the numEigs files a writeSolution() writes after a solve()
\* are pairwise distinct and distinct from those a writeSolution() wrote
\* after an earlier solve(), whatever the options were then and are now
C15_Original ==
    WroteAllModesAgain =>
        /\ Cardinality({written[i].file : i \in DOMAIN written}) = numEigs
        /\ \A opts \in OutputSettings : \A c \in EarlierCounters :
              {written[i].file : i \in DOMAIN written}
                  \cap ArtifactNames(opts, c) = {}

\* C15 amended: they are pairwise distinct, and distinct from those of an
\* earlier solve() if numberSolutions is on at one of the two writes (or the
\* output directory differs); with numberSolutions off at both and the same
\* output directory the later write reuses every file name of the earlier
C15_NamesDistinctWhenNumbered ==
    WroteAllModesAgain =>
        /\ Cardinality({written[i].file : i \in DOMAIN written}) = numEigs
        /\ \A opts \in OutputSettings : \A c \in EarlierCounters :
              IF \/ getOption(options, "numberSolutions")
                 \/ getOption(opts, "numberSolutions")
                 \/ getOption(opts, "outputDir") # getOption(options, "outputDir")
              THEN {written[i].file : i \in DOMAIN written}
                       \cap ArtifactNames(opts, c) = {}
              ELSE {written[i].file : i \in DOMAIN written}
                       = ArtifactNames(opts, c)

\* C15 witness: all three modes of the second solve() were written with
\* numberSolutions on
C15_Witness ==
    /\ WroteAllModesAgain /\ callCounter = 1 /\ Len(written) = 3
    /\ getOption(options, "numberSolutions")

\* C16: the file name of an artifact holds the callCounter field exactly
\* when numberSolutions is on at the time of the writeSolution call; when it
\* is off the name is {name}_{modeIndex}, the index in three digits.
C16_CounterSegmentIffNumbered ==
    lastOp = "writeSolution" =>
        \A i \in DOMAIN written :
            LET f == FieldsOf(written[i].file)
            IN  /\ WellPlaced(written[i].file)
                /\ ThreeDigitsOf(SubSeq(f, Len(f) - 2, Len(f)), written[i].index)
                /\ ~getOption(options, "numberSolutions") <=> Len(f) = 3
                /\ getOption(options, "numberSolutions") =>
                      /\ SubSeq(f, Len(f) - 3, Len(f) - 3) = "_"
                      /\ PaddedDigitsOf(SubSeq(f, 1, Len(f) - 4), callCounter)

\* C16 witness: a mode was written without the counter after numberSolutions
\* was switched off on a problem constructed with the output directory out
C16_Witness ==
    /\ lastOp = "writeSolution" /\ written # <<>>
    /\ ~getOption(options, "numberSolutions")
    /\ getOption(options, "outputDir") = "out"
    /\ callCounter = 0

\* the slot of a mode index holds a pair that the solve() numbered
\* callCounter produced from the operators the problem holds
PairOfLatestSolve(index) ==
    /\ callCounter >= 0 /\ solveCalls >= 1
    /\ index >= 0 /\ index < Len(eigs)
    /\ eigs[index + 1].gen = callCounter
    /\ \E i \in Dofs :
          /\ eigs[index + 1].eig = EigenvalueOf(K, M, i)
          /\ eigs[index + 1].vec = EigenvectorOf(M, i)

\* C21: every eigenpair getVariables returns and every mode writeSolution
\* writes is a pair of the most recent solve(): before the first solve()
\* getVariables returns nothing and no writer call is made, and after a
\* later solve() (also one that failed) no pair of an earlier solve() is
\* held or can be extracted at any index.
C21_PairsOfLatestSolveOnly ==
    /\ \A s \in DOMAIN eigs : PairOfLatestSolve(s - 1)
    /\ callCounter = -1 => eigs = <<>> /\ NoPairExtractable
    /\ \A i \in IndexInputs :
          getVariables(eigs, numEigs, assembler, i, FreshStorage("None")).status = "ok"
              => PairOfLatestSolve(i)
    /\ (lastOp = "getVariables" /\ status = "ok") =>
          /\ PairOfLatestSolve(args.index)
          /\ ret.vec = eigs[args.index + 1].vec
          /\ ret.freq = np_sqrt(eigs[args.index + 1].eig * Scale)
    /\ lastOp = "writeSolution" =>
          \A i \in DOMAIN written :
              /\ PairOfLatestSolve(written[i].index)
              /\ written[i].vars = eigs[written[i].index + 1].vec
    /\ (lastOp = "solve" /\ status # "ok") => eigs = <<>>

\* C21 witness: after a second solve(), made with other node coordinates
\* than the first, getVariables(0) has returned a mode while the assembler
\* still holds a mode shape written after the first solve()
C21_Witness ==
    /\ lastOp = "getVariables" /\ status = "ok" /\ args.index = 0
    /\ callCounter = 1 /\ M.nodes = 1
    /\ \E i \in Dofs : assembler.vars[i] = ISqrt((Scale * Scale) \div 2)
    /\ \E i \in Dofs : ret.vec[i] = ISqrt(Scale * Scale)

\* C22: the operators, the factorization and the eigenpairs of a problem
\* change in no step but a solve() of that problem: not in a
\* getNumFrequencies, getVariables, writeSolution or unsupported call, and
\* not in any operation on a second problem, its construction on the same
\* assembler included, which also leaves the first problem's callCounter,
\* options and variables as they were; nor does an operation on the first
\* problem change anything of the second.
C22_OnlyOwnSolveChangesResults ==
    [][ /\ lastOp' # "solve" => UNCHANGED <<M, K, pc, eigs>>
        /\ lastOp' \in OtherOps =>
              UNCHANGED <<fGuess, numEigs, options, callCounter, solveCalls,
                          x, Xpts, M, K, pc, eigs>>
        /\ lastOp' \notin OtherOps => other' = other
      ]_vars

\* C22 witness: a second problem, constructed on the assembler after the
\* first problem's solve(), has itself solved with other node coordinates and
\* holds an eigenpair, while the first one holds its two pairs
C22_Witness ==
    /\ lastOp = "other.solve" /\ status = "ok"
    /\ other.exists /\ other.callCounter = 0 /\ other.eigs # <<>>
    /\ other.K.dv = K.dv /\ assembler.nodes # Xpts
    /\ callCounter = 0 /\ Len(eigs) = 2 /\ K.nodes = Xpts

\* the options as the constructor left them: the defaults overlaid with the
\* dictionary it was handed
ConstructionOptions == applyOptions(InitialOptions, userOptions).options

\* the pairs the eigensolver could not accept are handed back as they are,
\* with the elevated error estimate, or are left out
SoftFailure(resid, pairs, eigTol) ==
    \A i \in DOMAIN resid :
        IF Accepted(resid[i], eigTol)
        THEN i <= Len(pairs) /\ pairs[i].conv /\ pairs[i].err = ErrConverged
        ELSE i > Len(pairs) \/ ~pairs[i].conv \/ pairs[i].err = ErrElevated

\* C23: every solve() terminates.  The eigensolver restarts at most
\* nRestarts times and makes at most subSpaceSize iterations between two
\* restarts; it returns only when every pair is accepted or when the last
\* cycle after the nRestarts-th restart is used up, and in the second case
\* it hands back a soft failure (status ok, the unaccepted pairs elevated or
\* left out); a solve() in which the eigensolver iterated never raises; and
\* a solve() that has started returns.
C23_SolveTerminates ==
    /\ [](/\ run.restarts <= getOption(ConstructionOptions, "nRestarts")
          /\ run.iters <= getOption(ConstructionOptions, "subSpaceSize")
          /\ (lastOp = "solve" /\ StepsOf("eigensolve") # {}) => status = "ok")
    /\ [][ (run.phase = "iterating" /\ run'.phase # "iterating") =>
              /\ status' = "ok" /\ lastOp' = "solve.running"
              /\ SoftFailure(run.resid, eigs', getOption(ConstructionOptions,
                                                         "L2Convergence"))
              /\ (\E i \in DOMAIN run.resid :
                     ~Accepted(run.resid[i],
                               getOption(ConstructionOptions, "L2Convergence")))
                    => /\ run.restarts = getOption(ConstructionOptions, "nRestarts")
                       /\ run.iters = getOption(ConstructionOptions, "subSpaceSize")
         ]_vars
    /\ (lastOp = "solve.running") ~> (lastOp = "solve")

\* C23 witness: the eigensolver has returned from a run in which the pair
\* asked for was not accepted, after nRestarts restarts and a full last
\* cycle, and has handed the pair back with the elevated error estimate
C23_Witness ==
    /\ lastOp = "solve.running" /\ status = "ok"
    /\ run.phase = "none" /\ run.step = Len(solveSteps)
    /\ run.restarts = 1 /\ run.iters = 2
    /\ run.resid[1] = InitialResidual
    /\ Len(eigs) = 1 /\ eigs[1].conv /\ eigs[1].err = ErrElevated

\* C24 as stated: what the preconditioner has factored, at construction and
\* in every solve(), is the shifted operator K - sigma*M of the matrices the
\* problem holds, with sigma = fGuess^2; it is never the stiffness operator
\* alone.  Violated by the constructor, which assembles K with
\* assembleJacobian(1, 0, 0) and factors it.
C24_Original ==
    /\ pc.of = "shifted"
    /\ pc.diag = ShiftedOperator(K, M, sigma).diag

\* C25 as stated: when the eigensolver has returned, every pair it reports
\* as converged has a relative residual below both the L2Convergence and
\* the L2ConvergenceRel value of the problem.  Violated where
\* L2ConvergenceRel is the lower of the two: the option is never read, and
\* the pair is accepted against L2Convergence alone.
C25_Original ==
    (lastOp = "solve.running" /\ run.phase = "none" /\ run.resid # <<>>) =>
        \A i \in DOMAIN eigs :
            (eigs[i].conv /\ eigs[i].err = ErrConverged) =>
                /\ run.resid[i] < ExpOf(getOption(options, "L2Convergence"))
                /\ run.resid[i] < ExpOf(getOption(options, "L2ConvergenceRel"))

\* C26: callCounter is advanced by the first statement of solve() that has
\* an effect: in every state, also in the middle of a solve(), it equals the
\* number of solve() invocations started minus one; the step that changes
\* it is the entry of a solve(), adds exactly 1 and precedes every call to
\* the assembler and the eigensolver; a solve() that fails later leaves it
\* advanced; and every numbered artifact carries the counter of a solve()
\* that produced the mode written, so the number of a failed solve() appears
\* in no file name.
C26_CounterAdvancedFirst ==
    /\ [](/\ callCounter = solveCalls - 1
          /\ (lastOp = "solve" /\ status # "ok") =>
                 eigs = <<>> /\ callCounter = solveCalls - 1
          /\ ( /\ lastOp = "writeSolution" /\ callCounter >= 0
               /\ getOption(options, "numberSolutions") ) =>
                 \A i \in DOMAIN written :
                     LET f == FieldsOf(written[i].file)
                     IN  /\ PaddedDigitsOf(SubSeq(f, 1, Len(f) - 4), callCounter)
                         /\ eigs[written[i].index + 1].gen = callCounter)
    /\ [][ /\ callCounter' # callCounter =>
                /\ lastOp = "idle" /\ lastOp' = "solve.running"
                /\ callCounter' = callCounter + 1
                /\ assembler' = assembler /\ trace' = <<>>
           /\ (lastOp = "idle" /\ lastOp' = "solve.running") =>
                callCounter' = callCounter + 1
         ]_vars

\* C26 witness: the second solve() has failed in the eigensolver's assembly,
\* after the variables were bound, and the counter stands at 1
C26_Witness ==
    /\ lastOp = "solve" /\ status = "AssemblyError"
    /\ StepsOf("setNodes") # {}
    /\ solveCalls = 2 /\ callCounter = 1

\* C27: whatever setOption has changed since construction, every solve()
\* works with the subSpaceSize, nRestarts and L2Convergence values the
\* options had when the constructor finished: the solver objects are the
\* ones made from those values, the eigensolver restarts at most that
\* nRestarts times with cycles of that subSpaceSize, gives up only when that
\* budget is used, and accepts pairs against that L2Convergence.  The other
\* options are read in the call: the eigensolver runs with the printLevel of
\* the options as they are, the timing report is printed iff printTiming is
\* on now, and writeSolution() writes iff writeSolution is on now, under the
\* outputDir of now, with the counter in the name iff numberSolutions is on
\* now.
C27_SolverOptionsFixedAtConstruction ==
    /\ CurrentSolvers = createSolvers(ConstructionOptions, sigma, numEigs)
    /\ run.restarts <= getOption(ConstructionOptions, "nRestarts")
    /\ run.iters <= getOption(ConstructionOptions, "subSpaceSize")
    /\ (lastOp = "solve.running" /\ run.phase = "none" /\ run.resid # <<>>) =>
          /\ SoftFailure(run.resid, eigs,
                         getOption(ConstructionOptions, "L2Convergence"))
          /\ (\E i \in DOMAIN run.resid :
                 ~Accepted(run.resid[i],
                           getOption(ConstructionOptions, "L2Convergence")))
                => /\ run.restarts = getOption(ConstructionOptions, "nRestarts")
                   /\ run.iters = getOption(ConstructionOptions, "subSpaceSize")
    /\ run.resid # <<>> => run.print_level = getOption(options, "printLevel")
    /\ (lastOp = "solve.running" /\ run.step > Len(solveSteps)) =>
          warned = IF getOption(options, "printTiming") THEN TimingLines
                   ELSE <<>>
    /\ lastOp = "writeSolution" =>
          /\ ~getOption(options, "writeSolution") => written = <<>>
          /\ (getOption(options, "writeSolution") /\ status = "ok") =>
                Len(written) = IF args.indices.none THEN numEigs
                               ELSE Len(args.indices.idx)
          /\ \A i \in DOMAIN written :
                /\ WellPlaced(written[i].file)
                /\ IF getOption(options, "numberSolutions")
                   THEN Len(FieldsOf(written[i].file)) = 7
                   ELSE Len(FieldsOf(written[i].file)) = 3

\* C27 witness: nRestarts was set to 3 and printLevel to 2 after a
\* construction with nRestarts = 1 and printLevel = 0; the eigensolver has
\* then run with print level 2 and has given up after one restart
C27_Witness ==
    /\ lastOp = "solve.running" /\ run.phase = "none"
    /\ getOption(options, "nRestarts") = 3
    /\ getOption(ConstructionOptions, "nRestarts") = 1
    /\ getOption(options, "printLevel") = 2
    /\ getOption(ConstructionOptions, "printLevel") = 0
    /\ run.print_level = 2 /\ run.restarts = 1 /\ run.iters = 2
    /\ run.resid # <<>> /\ run.resid[1] = InitialResidual

===========================================================================
